---- MODULE Spec2Model ----
(***************************************************************************)
(* Pi-hole Sentinel: the monitor service of src/dashboard/monitor.py.      *)
(*                                                                         *)
(* The module models the node prober (check_pihole_simple), the VIP        *)
(* resolver (check_who_has_vip), the notification dispatcher               *)
(* (is_snoozed, should_send_reminder, send_notification,                   *)
(* check_and_send_reminders) and the monitor loop (monitor_loop, log_event)*)
(*                                                                         *)
(* Python's None is the empty sequence <<>> and a present value v is <<v>>,*)
(* so that optional values of different types stay comparable.             *)
(*                                                                         *)
(* Time is kept relative to the clock: a stored datetime t is kept as      *)
(* datetime.now() - t (its age, in model time units), a configured         *)
(* deadline d as d - datetime.now().  Sleep advances the clock.            *)
(***************************************************************************)
EXTENDS Integers, Sequences, FiniteSets, TLC

VARIABLES
    pc,                  \* monitor_loop: "run" (at the top of while True), "sleep", "dead"
    startup,             \* monitor_loop local
    previous_state,
    previous_primary_online,
    previous_secondary_online,
    previous_primary_pihole,
    previous_secondary_pihole,
    previous_primary_has_vip,
    previous_secondary_has_vip,
    notification_state,  \* module global: last_notification_time, active_issues
    tick,                \* what the last tick observed and did (history of one tick),
                         \* and in tick.seen the role the tick before it resolved,
                         \* in tick.last what the tick before it saw of the nodes
    probe,               \* one call of check_pihole_simple: its environment and result
    dispatch,            \* one call of send_notification / check_and_send_reminders
    resolve,             \* one call of check_who_has_vip: its attempts so far and its result
    snoozer,             \* the settings file under the snooze endpoints, and what they last did
    limiter,             \* one rate limiter: its store per client, and the requests it accepted
    roundtrip,       \* stored settings read through the mask and saved back
    validation       \* one call of a SetupConfig validator: its argument and its answer

vars == <<pc, startup, previous_state, previous_primary_online,
          previous_secondary_online, previous_primary_pihole,
          previous_secondary_pihole, previous_primary_has_vip,
          previous_secondary_has_vip, notification_state, tick, probe, dispatch,
          resolve,
          snoozer,
          limiter,
          roundtrip,
          validation>>

None == <<>>
Some(v) == <<v>>
IsNone(o) == o = <<>>
Val(o) == o[1]

(***************************************************************************)
(* Bounds of the model.                                                    *)
(***************************************************************************)
MaxLeases == 2          \* most DHCP leases a node reports
MaxRepeatInterval == 1  \* largest repeat.interval (minutes) in a settings file
UnitsPerMinute == 2     \* model time units in one minute
MaxSnoozeMinutes == 2      \* longest snooze asked for, in minutes
MaxDuration == 1440        \* set_snooze: maximum snooze duration is 24 hours
SecondsPerStep == 20       \* seconds between two readings of the clock
MaxSecretLen == 9          \* longest stored credential, in characters
MaxNameLen == 16           \* longest run of letters in an interface name tried
MaxAge == MaxRepeatInterval * UnitsPerMinute + 1   \* ages saturate here

CountKind(log, kind) == Cardinality({i \in DOMAIN log : log[i].kind = kind})
CountMsg(log, msg) == Cardinality({i \in DOMAIN log : log[i].msg = msg})
Kinds(log) == {log[i].kind : i \in DOMAIN log}
Msgs(log) == {log[i].msg : i \in DOMAIN log}

(***************************************************************************)
(* Node prober: check_pihole_simple.  `net` is what the node answers to    *)
(* each step of the probe.                                                 *)
(***************************************************************************)
ConnectOutcomes == {"ok", "refused", "exception"}
AuthOutcomes == {"sid", "nosid", "status", "exception"}
StatsOutcomes == {"ok", "status", "exception"}
DhcpOutcomes == {"active", "inactive", "status", "exception"}
LeasesOutcomes == {"nested", "null", "missing", "flat", "status", "exception"}
LogoutOutcomes == {"ok", "exception"}
SessionOutcomes == {"ok", "exception"}     \* await get_http_session()

\* nleases is the length of the lease list, where the answer holds one
NetOutcomes ==
    {net \in [connect : ConnectOutcomes, session : SessionOutcomes,
              auth : AuthOutcomes, stats : StatsOutcomes,
              queries : {0, 1}, dhcp : DhcpOutcomes, leases : LeasesOutcomes,
              nleases : 0..MaxLeases, logout : LogoutOutcomes] :
        net.leases \notin {"nested", "flat"} => net.nleases = 0}

EmptyResult ==
    [online |-> FALSE, pihole |-> FALSE, queries |-> 0, blocked |-> 0,
     clients |-> 0, dhcp_leases |-> 0, dhcp_enabled |-> FALSE]

\* result["online"] = sock.connect_ex((ip, 80)) == 0
connect_online(net) == net.connect = "ok"

\* the statistics step: result["pihole"] and the counters
stats_step(net, result) ==
    IF net.stats = "ok"
    THEN [result EXCEPT !.pihole = TRUE, !.queries = net.queries,
                        !.blocked = net.queries, !.clients = net.queries]
    ELSE [result EXCEPT !.pihole = FALSE]

\* the DHCP configuration step
dhcp_step(net, result) ==
    [result EXCEPT !.dhcp_enabled = (net.dhcp = "active")]

\* len(leases_data) in place of len(all_leases): the keys of the answer counted
leases_step_counts_keys(net, result) ==
    [result EXCEPT !.dhcp_leases =
        IF net.leases \in {"nested", "null"} THEN 1 ELSE 0]

\* the DHCP leases step: len(leases_data.get("leases", [])), None counted as []
leases_step(net, result) ==
    [result EXCEPT !.dhcp_leases =
        IF net.leases = "nested" THEN net.nleases ELSE 0]

\* the requests check_pihole_simple makes, in order
probe_requests(net) ==
    <<"connect">> \o
    (IF net.connect # "ok" \/ net.session # "ok" THEN <<>>
     ELSE <<"auth">> \o
          (IF net.auth # "sid" THEN <<>>
           ELSE <<"stats">> \o
                (IF net.stats = "ok" THEN <<"dhcp", "leases">> ELSE <<>>) \o
                <<"logout">>))

\* the probe going on with auth and stats after a connect that failed
check_pihole_simple_no_return(net) ==
    LET r0 == [EmptyResult EXCEPT !.online = (net.connect = "ok")] IN
    IF net.auth # "sid" THEN r0
    ELSE [r0 EXCEPT !.pihole = (net.stats = "ok")]

\* the except clause that catches an exception raised by a step: the innermost
\* try statement around it
ProbeHandlers ==
    [connect |-> "except_connect", session |-> "except_main",
     auth |-> "except_auth", stats |-> "except_stats", dhcp |-> "except_dhcp",
     leases |-> "except_leases", logout |-> "except_logout"]

\* the steps the probe runs, get_http_session included
probe_steps(net) ==
    {probe_requests(net)[i] : i \in DOMAIN probe_requests(net)}
    \cup (IF net.connect = "ok" THEN {"session"} ELSE {})

\* the logout moved behind the outer try statement, with no handler of its own
probe_raises_logout_bare(net) ==
    \E step \in probe_steps(net) :
        /\ net[step] = "exception"
        /\ [ProbeHandlers EXCEPT !.logout = "none"][step] = "none"

\* an exception leaves check_pihole_simple: a step raised and no except clause
\* is around it
probe_raises(net) ==
    \E step \in probe_steps(net) :
        net[step] = "exception" /\ ProbeHandlers[step] = "none"

check_pihole_simple(net) ==
    LET r0 == [EmptyResult EXCEPT !.online = connect_online(net)] IN
    IF net.connect = "exception" THEN EmptyResult
    ELSE IF ~r0.online THEN r0
    ELSE IF net.session = "exception" THEN r0
    ELSE IF net.auth # "sid" THEN r0
    ELSE LET r1 == stats_step(net, r0) IN
         IF r1.pihole THEN leases_step(net, dhcp_step(net, r1)) ELSE r1

ProbeResults == {check_pihole_simple(net) : net \in NetOutcomes}

(***************************************************************************)
(* VIP resolver: check_who_has_vip.  An attempt reads three neighbour-table*)
(* outputs (token lists of `ip neigh show`) or raises.                     *)
(***************************************************************************)
max_retries == 3

Upper(tok) ==
    CASE tok = "aa:01" -> "AA:01"
      [] tok = "aa:02" -> "AA:02"
      [] OTHER -> tok

RECURSIVE index_of(_, _, _)
index_of(parts, tok, i) ==
    IF i > Len(parts) THEN 0
    ELSE IF parts[i] = tok THEN i ELSE index_of(parts, tok, i + 1)

\* parts[parts.index('lladdr') + 1].upper(), None on ValueError / IndexError
extract_mac(parts) ==
    LET lladdr_idx == index_of(parts, "lladdr", 1) IN
    IF lladdr_idx = 0 \/ lladdr_idx + 1 > Len(parts) THEN None
    ELSE Some(Upper(parts[lladdr_idx + 1]))

NeighOutputs ==
    { <<>>,
      <<"dev", "eth0", "FAILED">>,
      <<"dev", "eth0", "lladdr">>,
      <<"dev", "eth0", "lladdr", "aa:01", "REACHABLE">>,
      <<"dev", "eth0", "lladdr", "aa:02", "STALE">> }

ArpAttempts ==
    [exc : {FALSE}, vip : NeighOutputs, primary : NeighOutputs,
     secondary : NeighOutputs]
    \cup {[exc |-> TRUE, vip |-> <<>>, primary |-> <<>>, secondary |-> <<>>]}

\* a VIP whose link-layer address matches no node retried like a missing one
vip_decision_retries_mismatch(a) ==
    LET vip_mac == extract_mac(a.vip)
        primary_mac == extract_mac(a.primary)
        secondary_mac == extract_mac(a.secondary) IN
    IF a.exc THEN "error"
    ELSE IF ~IsNone(vip_mac) /\ ~IsNone(primary_mac) /\ vip_mac = primary_mac
    THEN "primary"
    ELSE IF ~IsNone(vip_mac) /\ ~IsNone(secondary_mac) /\ vip_mac = secondary_mac
    THEN "secondary"
    ELSE "retry"

\* the secondary compared before the primary
vip_decision_secondary_first(a) ==
    LET vip_mac == extract_mac(a.vip)
        primary_mac == extract_mac(a.primary)
        secondary_mac == extract_mac(a.secondary) IN
    IF a.exc THEN "error"
    ELSE IF ~IsNone(vip_mac) /\ ~IsNone(secondary_mac) /\ vip_mac = secondary_mac
    THEN "secondary"
    ELSE IF ~IsNone(vip_mac) /\ ~IsNone(primary_mac) /\ vip_mac = primary_mac
    THEN "primary"
    ELSE IF IsNone(vip_mac) THEN "retry" ELSE "neither"

\* a VIP without link-layer address concluded as "neither" at once
vip_decision_no_retry(a) ==
    LET vip_mac == extract_mac(a.vip)
        primary_mac == extract_mac(a.primary)
        secondary_mac == extract_mac(a.secondary) IN
    IF a.exc THEN "error"
    ELSE IF ~IsNone(vip_mac) /\ ~IsNone(primary_mac) /\ vip_mac = primary_mac
    THEN "primary"
    ELSE IF ~IsNone(vip_mac) /\ ~IsNone(secondary_mac) /\ vip_mac = secondary_mac
    THEN "secondary"
    ELSE "neither"

\* the decision of one attempt: "primary", "secondary", "retry" or "neither"
vip_decision(a) ==
    LET vip_mac == extract_mac(a.vip)
        primary_mac == extract_mac(a.primary)
        secondary_mac == extract_mac(a.secondary) IN
    IF a.exc THEN "error"
    ELSE IF ~IsNone(vip_mac) /\ ~IsNone(primary_mac) /\ vip_mac = primary_mac
    THEN "primary"
    ELSE IF ~IsNone(vip_mac) /\ ~IsNone(secondary_mac) /\ vip_mac = secondary_mac
    THEN "secondary"
    ELSE IF IsNone(vip_mac) THEN "retry" ELSE "neither"

RECURSIVE vip_attempt(_, _)
vip_attempt(arp, attempt) ==
    IF attempt >= max_retries
    THEN [primary |-> FALSE, secondary |-> FALSE, attempts |-> attempt]
    ELSE LET d == vip_decision(arp[attempt + 1]) IN
         IF d = "primary"
         THEN [primary |-> TRUE, secondary |-> FALSE, attempts |-> attempt + 1]
         ELSE IF d = "secondary"
         THEN [primary |-> FALSE, secondary |-> TRUE, attempts |-> attempt + 1]
         ELSE IF d \in {"retry", "error"} /\ attempt < max_retries - 1
         THEN vip_attempt(arp, attempt + 1)
         ELSE [primary |-> FALSE, secondary |-> FALSE, attempts |-> attempt + 1]

check_who_has_vip(arp) == vip_attempt(arp, 0)

\* both nodes' link-layer addresses equal the VIP's in the deciding attempt
both_own_vip(arp) ==
    LET a == arp[check_who_has_vip(arp).attempts] IN
    /\ ~a.exc
    /\ ~IsNone(extract_mac(a.vip))
    /\ extract_mac(a.vip) = extract_mac(a.primary)
    /\ extract_mac(a.vip) = extract_mac(a.secondary)

\* the neighbour table stays the same over the retries of one tick
SteadyArp == {[i \in 1..max_retries |-> a] : a \in ArpAttempts}

VipResults ==
    {[primary |-> check_who_has_vip(arp).primary,
      secondary |-> check_who_has_vip(arp).secondary,
      tie |-> both_own_vip(arp)] : arp \in SteadyArp}

(***************************************************************************)
(* Events and the operations of a coroutine.  A coroutine is compiled to   *)
(* the list of its operations in program order; run_ops executes the list  *)
(* until a database write raises.                                          *)
(***************************************************************************)
Event(kind, msg, info) == [kind |-> kind, msg |-> msg, info |-> info]

\* await log_event(kind, message)
LogOp(kind, msg, info) == [op |-> "write", ev |-> Event(kind, msg, info)]
\* INSERT INTO status_history
SnapshotOp == [op |-> "snapshot", ev |-> Event("snapshot", "status_history", <<>>)]
\* session.post to one channel
AttemptOp(channel) == [op |-> "attempt", ev |-> Event("attempt", channel, <<>>)]
\* entry into send_notification(event_type, template_vars, is_reminder)
CallOp(event_type, tag, template_vars) ==
    [op |-> "call",
     ev |-> Event("call", event_type,
                  <<tag, template_vars.node, template_vars.master,
                    template_vars.backup, template_vars.reason>>)]
\* an assignment to monitor_loop's or the module's state
\* an exception no except clause of the coroutine catches
RaiseOp == [op |-> "raise", ev |-> Event("", "", <<>>)]

SetOp(what, arg) == [op |-> what, ev |-> Event("set", arg, <<>>)]

(***************************************************************************)
(* Notification dispatcher.                                                *)
(***************************************************************************)
EventTypes == {"failover", "fault"}
ReminderOrder == <<"failover", "fault">>
ChannelOrder == <<"telegram", "discord", "pushover", "ntfy", "webhook">>
Channels == {ChannelOrder[i] : i \in DOMAIN ChannelOrder}
ChannelOutcomes == {"disabled", "nocreds", "ok", "http_error", "exception"}

\* timedelta(minutes=m) in model time units
minutes(m) == m * UnitsPerMinute

\* snooze.until: absent, not an ISO date, or a time (kept as until - now)
NoUntil == [kind |-> "missing", delta |-> 0]
BadUntil == [kind |-> "invalid", delta |-> 0]
Until(d) == [kind |-> "time", delta |-> d]

\* the comparison turned round: snoozed once the deadline has passed
is_snoozed_after_until(settings) ==
    LET snooze == settings.snooze IN
    IF ~snooze.enabled THEN FALSE
    ELSE IF snooze.until.kind # "time" THEN FALSE
    ELSE snooze.until.delta < 0

is_snoozed(settings) ==
    LET snooze == settings.snooze IN
    IF ~snooze.enabled THEN FALSE
    ELSE IF snooze.until.kind = "missing" THEN FALSE
    ELSE IF snooze.until.kind = "invalid" THEN FALSE
    ELSE 0 < snooze.until.delta          \* datetime.now() < until

\* elapsed > interval instead of elapsed >= interval
should_send_reminder_strict(event_type, settings, ns) ==
    LET repeat == settings.repeat
        last_time == ns.last_notification_time[event_type] IN
    IF ~repeat.enabled THEN FALSE
    ELSE IF repeat.interval <= 0 THEN FALSE
    ELSE IF ~ns.active_issues[event_type] THEN FALSE
    ELSE IF IsNone(last_time) THEN FALSE
    ELSE Val(last_time) > minutes(repeat.interval)

should_send_reminder(event_type, settings, ns) ==
    LET repeat == settings.repeat
        last_time == ns.last_notification_time[event_type] IN
    IF ~repeat.enabled THEN FALSE
    ELSE IF repeat.interval <= 0 THEN FALSE
    ELSE IF ~ns.active_issues[event_type] THEN FALSE
    ELSE IF IsNone(last_time) THEN FALSE
    ELSE Val(last_time) >= minutes(repeat.interval)   \* elapsed >= timedelta

\* the channels send_notification posts to, in order
RECURSIVE channel_ops(_, _)
channel_ops(settings, i) ==
    IF i > Len(ChannelOrder) THEN <<>>
    ELSE (IF settings.channels[ChannelOrder[i]] \in {"ok", "http_error", "exception"}
          THEN <<AttemptOp(ChannelOrder[i])>> ELSE <<>>)
         \o channel_ops(settings, i + 1)

sent_count(settings) ==
    Cardinality({c \in Channels : settings.channels[c] = "ok"})
failed_services(settings) ==
    {c \in Channels : settings.channels[c] \in {"http_error", "exception"}}

reminder_tag(is_reminder) == IF is_reminder THEN "reminder" ELSE "initial"

\* a template that cannot be filled in sent as it is
send_notification_raw_template(event_type, template_vars, is_reminder, settings) ==
    <<CallOp(event_type, reminder_tag(is_reminder), template_vars)>> \o
    IF settings.file = "missing" THEN <<>>
    ELSE IF settings.file = "unreadable"
    THEN <<LogOp("warning", "settings_load_failed", <<>>)>>
    ELSE IF is_snoozed(settings) THEN <<>>
    ELSE IF ~settings.events[event_type] THEN <<>>
    ELSE IF settings.template = "bad_format"
    THEN <<RaiseOp>>
    ELSE (IF settings.template = "missing_var"
          THEN <<LogOp("warning", "template_error", <<>>)>> ELSE <<>>)
         \o channel_ops(settings, 1)
         \o (IF sent_count(settings) > 0
             THEN <<LogOp("notification", "notification_sent",
                          <<event_type, reminder_tag(is_reminder)>>),
                    SetOp("set_last_time", event_type)>>
             ELSE <<>>)
         \o (IF failed_services(settings) # {}
             THEN <<LogOp("warning", "notification_failed", <<>>)>>
             ELSE <<>>)

send_notification(event_type, template_vars, is_reminder, settings) ==
    <<CallOp(event_type, reminder_tag(is_reminder), template_vars)>> \o
    IF settings.file = "missing" THEN <<>>
    ELSE IF settings.file = "unreadable"
    THEN <<LogOp("warning", "settings_load_failed", <<>>)>>
    ELSE IF is_snoozed(settings) THEN <<>>
    ELSE IF ~settings.events[event_type] THEN <<>>
    ELSE IF settings.template = "missing_var"      \* KeyError
    THEN <<LogOp("warning", "template_error", <<>>)>>
    ELSE IF settings.template = "bad_format"       \* ValueError, IndexError
    THEN <<RaiseOp>>
    ELSE channel_ops(settings, 1)
         \o (IF sent_count(settings) > 0
             THEN <<LogOp("notification", "notification_sent",
                          <<event_type, reminder_tag(is_reminder)>>),
                    SetOp("set_last_time", event_type)>>
             ELSE <<>>)
         \o (IF failed_services(settings) # {}
             THEN <<LogOp("warning", "notification_failed", <<>>)>>
             ELSE <<>>)

\* the template variables check_and_send_reminders builds
reminder_vars ==
    [node |-> "Unknown", master |-> "secondary.name", backup |-> "primary.name",
     reason |-> "Issue still active"]

RECURSIVE reminder_ops(_, _, _)
reminder_ops(settings, ns, i) ==
    IF i > Len(ReminderOrder) THEN <<>>
    ELSE (IF should_send_reminder(ReminderOrder[i], settings, ns)
          THEN send_notification(ReminderOrder[i], reminder_vars, TRUE, settings)
          ELSE <<>>)
         \o reminder_ops(settings, ns, i + 1)

check_and_send_reminders(settings, ns) ==
    IF settings.file # "ok" THEN <<>>
    ELSE IF ~settings.repeat.enabled \/ settings.repeat.interval <= 0 THEN <<>>
    ELSE reminder_ops(settings, ns, 1)

(***************************************************************************)
(* Execution of an operation list.  st is the state the operations act on: *)
(* the events and snapshot rows written, the channel posts made, and the   *)
(* program state.  failAt = k > 0 makes the k-th database write raise.     *)
(***************************************************************************)
bump(age) == IF IsNone(age) THEN None
             ELSE Some(IF Val(age) < MaxAge THEN Val(age) + 1 ELSE MaxAge)

apply_set(o, st, obs) ==
    IF o.op = "set_last_time"      \* last_notification_time[t] = datetime.now()
    THEN [st EXCEPT !.ns.last_notification_time[o.ev.msg] = Some(0)]
    ELSE IF o.op = "set_active"
    THEN [st EXCEPT !.ns.active_issues[o.ev.msg] = TRUE]
    ELSE IF o.op = "clear_active"
    THEN [st EXCEPT !.ns.active_issues[o.ev.msg] = FALSE]
    ELSE IF o.op = "startup_done"
    THEN [st EXCEPT !.startup = FALSE]
    ELSE IF o.op = "set_previous"
    THEN [st EXCEPT !.previous =
            [state |-> Some(obs.current_master),
             primary_online |-> Some(obs.primary_data.online),
             secondary_online |-> Some(obs.secondary_data.online),
             primary_pihole |-> Some(obs.primary_data.pihole),
             secondary_pihole |-> Some(obs.secondary_data.pihole),
             primary_has_vip |-> Some(obs.primary_has_vip),
             secondary_has_vip |-> Some(obs.secondary_has_vip)],
          !.updated = TRUE]
    ELSE st

RECURSIVE run_ops(_, _, _, _, _)
run_ops(ops, i, st, obs, failAt) ==
    IF i > Len(ops) THEN st
    ELSE LET o == ops[i] IN
         IF o.op \in {"write", "snapshot"}
         THEN IF st.writes + 1 = failAt
              THEN [st EXCEPT !.raised = TRUE]
              ELSE run_ops(ops, i + 1,
                           [st EXCEPT !.writes = @ + 1,
                                      !.log = Append(@, o.ev),
                                      !.rows = IF o.op = "snapshot"
                                               THEN Append(@, obs.row) ELSE @],
                           obs, failAt)
         ELSE IF o.op = "raise"
         THEN [st EXCEPT !.raised = TRUE]
         ELSE IF o.op = "attempt"
         THEN run_ops(ops, i + 1, [st EXCEPT !.attempts = Append(@, o.ev.msg)],
                      obs, failAt)
         ELSE IF o.op = "call"
         THEN run_ops(ops, i + 1, [st EXCEPT !.calls = Append(@, o.ev)],
                      obs, failAt)
         ELSE run_ops(ops, i + 1, apply_set(o, st, obs), obs, failAt)

NumWrites(ops) == Cardinality({i \in DOMAIN ops : ops[i].op \in {"write", "snapshot"}})

\* the notification state after the operations ops[1..n], none of them raising
RECURSIVE ns_after(_, _, _)
ns_after(ops, ns, i) ==
    IF i > Len(ops) THEN ns
    ELSE ns_after(ops,
                  apply_set(ops[i], [ns |-> ns, startup |-> FALSE,
                                     previous |-> <<>>, updated |-> FALSE], <<>>).ns,
                  i + 1)

(***************************************************************************)
(* Monitor loop: one iteration of monitor_loop's while True.               *)
(***************************************************************************)
DigOutcomes == {"answer", "empty", "timeout", "error"}

\* proc.returncode == 0 and len(stdout.decode().strip()) > 0
check_dns(dig) == dig = "answer"

\* what one tick observes, and the values derived from it before any event
observe(primary_data, secondary_data, dig, vip) ==
    LET primary_state == IF vip.primary THEN "MASTER" ELSE "BACKUP"
        secondary_state == IF vip.secondary THEN "MASTER" ELSE "BACKUP"
        primary_dns == IF primary_data.online THEN check_dns(dig) ELSE FALSE
        secondary_dns == IF secondary_data.online THEN check_dns(dig) ELSE FALSE
        dhcp_leases == IF primary_state = "MASTER" THEN primary_data.dhcp_leases
                       ELSE IF secondary_state = "MASTER"
                       THEN secondary_data.dhcp_leases ELSE 0 IN
    [primary_data |-> primary_data,
     secondary_data |-> secondary_data,
     primary_has_vip |-> vip.primary,
     secondary_has_vip |-> vip.secondary,
     tie |-> vip.tie,
     primary_state |-> primary_state,
     secondary_state |-> secondary_state,
     current_master |-> IF primary_state = "MASTER" THEN "primary" ELSE "secondary",
     row |-> [primary_state |-> primary_state,
              secondary_state |-> secondary_state,
              primary_has_vip |-> vip.primary,
              secondary_has_vip |-> vip.secondary,
              primary_online |-> primary_data.online,
              secondary_online |-> secondary_data.online,
              primary_pihole |-> primary_data.pihole,
              secondary_pihole |-> secondary_data.pihole,
              primary_dns |-> primary_dns,
              secondary_dns |-> secondary_dns,
              dhcp_leases |-> dhcp_leases,
              primary_dhcp |-> primary_data.dhcp_enabled,
              secondary_dhcp |-> secondary_data.dhcp_enabled]]

\* "Log initial status on startup"
startup_ops(obs) ==
    IF startup
    THEN <<LogOp("info", "monitor_started",
                 <<IF obs.primary_state = "MASTER" THEN "Primary" ELSE "Secondary">>),
           LogOp("info", "primary_status", <<>>),
           LogOp("info", "secondary_status", <<>>),
           SetOp("startup_done", "")>>
    ELSE <<>>

\* "Detect online/offline changes" of one node
online_ops(prev_online, data, node) ==
    IF IsNone(prev_online) THEN <<>>
    ELSE IF Val(prev_online) /\ ~data.online
    THEN <<LogOp("warning", "went_offline", <<node>>)>>
    ELSE IF ~Val(prev_online) /\ data.online
    THEN <<LogOp("success", "back_online", <<node>>)>>
    ELSE <<>>

\* the "is not None" guard left out: not None is true in Python
service_ops_unguarded(prev_pihole, data, node) ==
    IF ~IsNone(prev_pihole) /\ Val(prev_pihole) /\ ~data.pihole /\ data.online
    THEN <<LogOp("warning", "service_down", <<node>>)>>
    ELSE IF (IsNone(prev_pihole) \/ ~Val(prev_pihole)) /\ data.pihole
    THEN <<LogOp("success", "service_up", <<node>>)>>
    ELSE <<>>

\* "Detect Pi-hole service changes" of one node
service_ops(prev_pihole, data, node) ==
    IF IsNone(prev_pihole) THEN <<>>
    ELSE IF Val(prev_pihole) /\ ~data.pihole /\ data.online
    THEN <<LogOp("warning", "service_down", <<node>>)>>
    ELSE IF ~Val(prev_pihole) /\ data.pihole
    THEN <<LogOp("success", "service_up", <<node>>)>>
    ELSE <<>>

\* "Detect VIP changes (not during failover)"
vip_ops(obs) ==
    IF ~IsNone(previous_primary_has_vip) /\ ~IsNone(previous_secondary_has_vip)
       /\ (Val(previous_primary_has_vip) # obs.primary_has_vip
           \/ Val(previous_secondary_has_vip) # obs.secondary_has_vip)
    THEN <<LogOp("warning", "vip_switched",
                 <<IF Val(previous_primary_has_vip) THEN "Primary" ELSE "Secondary",
                   IF obs.primary_has_vip THEN "Primary" ELSE "Secondary">>)>>
    ELSE <<>>

\* "Detect failover": previous_state and previous_state != current_master
role_changed(obs) ==
    ~IsNone(previous_state) /\ Val(previous_state) # obs.current_master

\* "Determine failover reason"
failover_reason(obs) ==
    IF obs.current_master = "secondary"
    THEN IF ~obs.primary_data.online THEN "Primary is offline"
         ELSE IF ~obs.primary_data.pihole THEN "Pi-hole service on Primary is down"
         ELSE ""
    ELSE IF ~obs.secondary_data.online THEN "Secondary is offline"
         ELSE IF ~obs.secondary_data.pihole THEN "Pi-hole service on Secondary is down"
         ELSE ""

\* the template variables of the failover notification
failover_vars(obs) ==
    LET master_name == IF obs.current_master = "primary" THEN "Primary" ELSE "Secondary"
        reason == failover_reason(obs) IN
    [node |-> master_name,
     master |-> IF obs.current_master = "Primary"
                THEN "primary_name" ELSE "secondary_name",
     backup |-> IF obs.current_master = "Primary"
                THEN "secondary_name" ELSE "primary_name",
     reason |-> IF reason # "" THEN reason ELSE "Unknown"]

\* "Detect failover", the reason, the notification and the active issue
failover_ops(obs, settings) ==
    IF role_changed(obs)
    THEN <<LogOp("failover", "became_master",
                 <<IF obs.current_master = "primary" THEN "Primary" ELSE "Secondary">>)>>
         \o (IF failover_reason(obs) # ""
             THEN <<LogOp("info", "failover_reason", <<failover_reason(obs)>>)>>
             ELSE <<>>)
         \o send_notification("failover", failover_vars(obs), FALSE, settings)
         \o <<SetOp("set_active", "failover")>>
    ELSE <<>>

\* "Check for recovery - clear active issues"
recovery_ops(obs) ==
    IF role_changed(obs) /\ obs.current_master = "primary"
    THEN <<SetOp("clear_active", "failover"), SetOp("clear_active", "fault")>>
    ELSE <<>>

\* "Track fault state (both offline or both pihole down)"
fault_ops(obs) ==
    LET both_offline == ~obs.primary_data.online /\ ~obs.secondary_data.online
        both_pihole_down == ~obs.primary_data.pihole /\ ~obs.secondary_data.pihole IN
    IF both_offline \/ both_pihole_down
    THEN <<SetOp("set_active", "fault")>>
    ELSE <<SetOp("clear_active", "fault")>>

\* the DHCP check without the BACKUP branch
dhcp_ops_master_only(state, dhcp, node) ==
    IF state = "MASTER" /\ ~dhcp
    THEN <<LogOp("warning", "dhcp_master_disabled", <<node>>)>>
    ELSE <<>>

\* "Check DHCP misconfiguration" of one node
dhcp_ops(state, dhcp, node) ==
    IF state = "MASTER" /\ ~dhcp
    THEN <<LogOp("warning", "dhcp_master_disabled", <<node>>)>>
    ELSE IF state = "BACKUP" /\ dhcp
    THEN <<LogOp("warning", "dhcp_backup_enabled", <<node>>)>>
    ELSE <<>>

\* the body of the try block, from the startup log to the DHCP check
tick_ops(obs, settings) ==
    LET head == startup_ops(obs)
                \o online_ops(previous_primary_online, obs.primary_data, "Primary")
                \o online_ops(previous_secondary_online, obs.secondary_data, "Secondary")
                \o service_ops(previous_primary_pihole, obs.primary_data, "Primary")
                \o service_ops(previous_secondary_pihole, obs.secondary_data, "Secondary")
                \o vip_ops(obs)
                \o <<SnapshotOp>>
                \o failover_ops(obs, settings)
                \o recovery_ops(obs)
                \o fault_ops(obs) IN
    head
    \o check_and_send_reminders(settings, ns_after(head, notification_state, 1))
    \o <<SetOp("set_previous", "")>>
    \o dhcp_ops(obs.primary_state, obs.primary_data.dhcp_enabled, "Primary")
    \o dhcp_ops(obs.secondary_state, obs.secondary_data.dhcp_enabled, "Secondary")

(***************************************************************************)
(* The environment of a tick: probe results, resolver results and the      *)
(* notification settings file (read anew by every dispatch).               *)
(***************************************************************************)
TickNetOutcomes ==
    {net \in NetOutcomes : /\ net.queries = 1 /\ net.leases = "nested"
                           /\ net.nleases = MaxLeases /\ net.logout = "ok"
                           /\ net.session = "ok"}
TickProbeResults == {check_pihole_simple(net) : net \in TickNetOutcomes}
TickDig == {"answer"}

BaseSettings ==
    [file |-> "ok",
     snooze |-> [enabled |-> FALSE, until |-> NoUntil],
     events |-> [t \in EventTypes |-> TRUE],
     template |-> "ok",
     channels |-> [c \in Channels |-> IF c = "telegram" THEN "ok" ELSE "disabled"],
     repeat |-> [enabled |-> TRUE, interval |-> MaxRepeatInterval]]

TickSettings ==
    { [BaseSettings EXCEPT !.file = "missing"],
      BaseSettings,
      [BaseSettings EXCEPT !.snooze = [enabled |-> TRUE, until |-> Until(1)]] }

NoPrevious ==
    [state |-> None, primary_online |-> None, secondary_online |-> None,
     primary_pihole |-> None, secondary_pihole |-> None,
     primary_has_vip |-> None, secondary_has_vip |-> None]

CurrentPrevious ==
    [state |-> previous_state,
     primary_online |-> previous_primary_online,
     secondary_online |-> previous_secondary_online,
     primary_pihole |-> previous_primary_pihole,
     secondary_pihole |-> previous_secondary_pihole,
     primary_has_vip |-> previous_primary_has_vip,
     secondary_has_vip |-> previous_secondary_has_vip]

EmptyNotificationState ==
    [last_notification_time |-> [t \in EventTypes |-> None],
     active_issues |-> [t \in EventTypes |-> FALSE]]

IdleTick ==
    [done |-> FALSE, obs |-> <<>>, settings |-> <<>>, log |-> <<>>,
     attempts |-> <<>>, rows |-> <<>>, calls |-> <<>>, raised |-> FALSE,
     handler_ok |-> TRUE,
     updated |-> FALSE, before |-> <<>>, seen |-> None, last |-> None]

IdleProbe == [pc |-> "idle", net |-> <<>>, result |-> <<>>, requests |-> <<>>]
IdleDispatch == [pc |-> "idle"]
IdleResolve == [pc |-> "idle"]
IdleSnoozer == [pc |-> "idle"]
IdleLimiter == [pc |-> "idle"]
IdleRoundTrip == [pc |-> "idle"]
IdleValidation == [pc |-> "idle"]

\* except Exception as e: await log_event("error", ...), which may raise too
handler(st, handler_ok) ==
    IF st.raised /\ handler_ok
    THEN [st EXCEPT !.log = Append(@, Event("error", "monitor_error", <<>>))]
    ELSE st

\* the handler re-raising what it caught
after_try_reraise(st, handler_ok) ==
    IF st.raised THEN "dead" ELSE "sleep"

\* where monitor_loop is after the try statement
after_try(st, handler_ok) ==
    IF st.raised /\ ~handler_ok THEN "dead" ELSE "sleep"

Init ==
    /\ resolve = IdleResolve
    /\ snoozer = IdleSnoozer
    /\ limiter = IdleLimiter
    /\ roundtrip = IdleRoundTrip
    /\ validation = IdleValidation
    /\ pc = "run"
    /\ startup = TRUE
    /\ previous_state = None
    /\ previous_primary_online = None
    /\ previous_secondary_online = None
    /\ previous_primary_pihole = None
    /\ previous_secondary_pihole = None
    /\ previous_primary_has_vip = None
    /\ previous_secondary_has_vip = None
    /\ notification_state = EmptyNotificationState
    /\ tick = IdleTick
    /\ probe = IdleProbe
    /\ dispatch = IdleDispatch

\* one iteration: the try block and its exception handler, in the environment
\* given by the probe results, resolver results and settings files
TickOver(ProbeSet, VipSet, SettingsSet) ==
    /\ pc = "run"
    /\ \E primary_data \in ProbeSet, secondary_data \in ProbeSet,
          dig \in TickDig, vip \in VipSet, settings \in SettingsSet :
       \E obs \in {observe(primary_data, secondary_data, dig, vip)} :
       \E ops \in {tick_ops(obs, settings)} :
       \E failAt \in 0..NumWrites(ops), handler_ok \in BOOLEAN :
       \E st \in {handler(run_ops(ops, 1,
                    [log |-> <<>>, attempts |-> <<>>, rows |-> <<>>,
                     calls |-> <<>>, writes |-> 0, raised |-> FALSE, updated |-> FALSE,
                     ns |-> notification_state, startup |-> startup,
                     previous |-> CurrentPrevious], obs, failAt), handler_ok)} :
            /\ st.raised \/ handler_ok
            /\ pc' = after_try(st, handler_ok)
            /\ startup' = st.startup
            /\ previous_state' = st.previous.state
            /\ previous_primary_online' = st.previous.primary_online
            /\ previous_secondary_online' = st.previous.secondary_online
            /\ previous_primary_pihole' = st.previous.primary_pihole
            /\ previous_secondary_pihole' = st.previous.secondary_pihole
            /\ previous_primary_has_vip' = st.previous.primary_has_vip
            /\ previous_secondary_has_vip' = st.previous.secondary_has_vip
            /\ notification_state' = st.ns
            /\ tick' = [done |-> TRUE, obs |-> obs, settings |-> settings,
                        log |-> st.log, attempts |-> st.attempts, rows |-> st.rows,
                        calls |-> st.calls,
                        raised |-> st.raised, handler_ok |-> handler_ok,
                        updated |-> st.updated,
                        seen |-> tick.seen,
                        last |-> tick.last,
                        before |-> [previous |-> CurrentPrevious,
                                    startup |-> startup,
                                    ns |-> notification_state]]
    /\ UNCHANGED <<probe, dispatch, resolve, snoozer, limiter, roundtrip, validation>>

\* await asyncio.sleep(CONFIG["check_interval"]): one time unit passes
\* a service-DOWN warning of the tick just ended names the node
down_logged(node) ==
    \E i \in DOMAIN tick.log :
        /\ tick.log[i].kind = "warning"
        /\ tick.log[i].msg = "service_down"
        /\ tick.log[i].info = <<node>>

\* a service-DOWN warning was logged for the node after the last tick that
\* saw its service up
warned_since_up(was_warned, pihole, node) ==
    IF pihole THEN FALSE ELSE was_warned \/ down_logged(node)

\* what the tick just ended saw of the two nodes (reachable, service up), and
\* the service-DOWN warnings outstanding
Flags(obs) ==
    [primary_online |-> obs.primary_data.online,
     secondary_online |-> obs.secondary_data.online,
     primary_pihole |-> obs.primary_data.pihole,
     secondary_pihole |-> obs.secondary_data.pihole,
     primary_warned |->
        warned_since_up(~IsNone(tick.last) /\ Val(tick.last).primary_warned,
                        obs.primary_data.pihole, "Primary"),
     secondary_warned |->
        warned_since_up(~IsNone(tick.last) /\ Val(tick.last).secondary_warned,
                        obs.secondary_data.pihole, "Secondary")]

\* asyncio.sleep(CONFIG["check_interval"]): time passes, the next tick starts;
\* with remember the history of the tick just ended is kept in tick.last
Pause(remember) ==
    /\ pc = "sleep"
    /\ pc' = "run"
    /\ notification_state' =
         [notification_state EXCEPT
            !.last_notification_time = [t \in EventTypes |-> bump(@[t])]]
    /\ tick' = [IdleTick EXCEPT !.seen = Some(tick.obs.current_master),
                               !.last = IF remember THEN Some(Flags(tick.obs))
                                        ELSE None]
    /\ UNCHANGED <<startup, previous_state, previous_primary_online,
                   previous_secondary_online, previous_primary_pihole,
                   previous_secondary_pihole, previous_primary_has_vip,
                   previous_secondary_has_vip, probe, dispatch, resolve, snoozer, limiter, roundtrip, validation>>

Sleep == Pause(FALSE)

SleepRemembering == Pause(TRUE)

\* the state a call of the dispatcher leaves, its k-th database write raising
dispatch_run(ops, failAt) ==
    run_ops(ops, 1,
            [log |-> <<>>, attempts |-> <<>>, rows |-> <<>>, calls |-> <<>>,
             writes |-> 0, raised |-> FALSE, updated |-> FALSE,
             ns |-> notification_state, startup |-> startup,
             previous |-> CurrentPrevious], <<>>, failAt)

\* the template variables a caller passes (the test endpoints' sample data)
sample_vars ==
    [node |-> "secondary_name", master |-> "secondary_name",
     backup |-> "primary_name", reason |-> "Test notification"]

\* the settings file while the test endpoint is in use
ApiSettings == {BaseSettings}

\* POST /api/notifications/test-template, served by the same event loop while
\* monitor_loop awaits (here: at the end of its sleep): it calls
\* send_notification with sample data
test_template_notification ==
    /\ pc = "run"
    /\ \E template_type \in EventTypes, settings \in ApiSettings :
       \E ops \in {send_notification(template_type, sample_vars, FALSE, settings)} :
       \E failAt \in 0..NumWrites(ops) :
          notification_state' = dispatch_run(ops, failAt).ns
    /\ UNCHANGED <<pc, startup, previous_state, previous_primary_online,
                   previous_secondary_online, previous_primary_pihole,
                   previous_secondary_pihole, previous_primary_has_vip,
                   previous_secondary_has_vip, tick, probe, dispatch, resolve, snoozer, limiter, roundtrip, validation>>

Tick == TickOver(TickProbeResults, VipResults, TickSettings)

Next == Tick \/ Sleep

Spec == Init /\ [][Next]_vars

(***************************************************************************)
(* The probe phase of a tick on its own: check_pihole_simple against every *)
(* answer a node can give, and the snapshot row built from its result.     *)
(***************************************************************************)
ProbeInit ==
    /\ resolve = IdleResolve
    /\ snoozer = IdleSnoozer
    /\ limiter = IdleLimiter
    /\ roundtrip = IdleRoundTrip
    /\ validation = IdleValidation
    /\ pc = "run"
    /\ startup = TRUE
    /\ previous_state = None
    /\ previous_primary_online = None
    /\ previous_secondary_online = None
    /\ previous_primary_pihole = None
    /\ previous_secondary_pihole = None
    /\ previous_primary_has_vip = None
    /\ previous_secondary_has_vip = None
    /\ notification_state = EmptyNotificationState
    /\ tick = IdleTick
    /\ dispatch = IdleDispatch
    /\ \E net \in NetOutcomes, node \in {"primary", "secondary"} :
          probe = [pc |-> "ready", net |-> net, node |-> node, raised |-> FALSE,
                   result |-> <<>>, requests |-> <<>>, row |-> <<>>]

ProbeNode ==
    /\ probe.pc = "ready"
    /\ \E other \in TickProbeResults, dig \in TickDig, vip \in VipResults :
       \E result \in {check_pihole_simple(probe.net)} :
          probe' = [probe EXCEPT
                      !.pc = "done",
                      !.raised = probe_raises(probe.net),
                      !.result = result,
                      !.requests = probe_requests(probe.net),
                      !.row = IF probe.node = "primary"
                              THEN observe(result, other, dig, vip).row
                              ELSE observe(other, result, dig, vip).row]
    /\ UNCHANGED <<pc, startup, previous_state, previous_primary_online,
                   previous_secondary_online, previous_primary_pihole,
                   previous_secondary_pihole, previous_primary_has_vip,
                   previous_secondary_has_vip, notification_state, tick, dispatch, resolve, snoozer, limiter, roundtrip, validation>>

ProbeSpec == ProbeInit /\ [][ProbeNode]_vars

(***************************************************************************)
(* The dispatcher on its own: one call of send_notification or of          *)
(* check_and_send_reminders, for the settings files and notification       *)
(* states below.                                                           *)
(***************************************************************************)
SnoozeValues ==
    [enabled : BOOLEAN, until : {NoUntil, BadUntil, Until(0), Until(1)}]

ChannelSetups ==
    { [c \in Channels |-> "disabled"],
      [c \in Channels |-> IF c = "telegram" THEN "ok" ELSE "disabled"],
      [c \in Channels |-> IF c = "telegram" THEN "nocreds" ELSE "disabled"],
      [c \in Channels |-> IF c = "discord" THEN "http_error" ELSE "disabled"],
      [c \in Channels |-> IF c = "ntfy" THEN "ok"
                          ELSE IF c = "webhook" THEN "exception" ELSE "disabled"] }

RepeatValues == [enabled : BOOLEAN, interval : 0..MaxRepeatInterval]

SettingsFiles ==
    { [BaseSettings EXCEPT !.file = "missing"],
      [BaseSettings EXCEPT !.file = "unreadable"] }
    \cup { [BaseSettings EXCEPT !.snooze = z, !.channels = ch, !.template = tp] :
             z \in SnoozeValues, ch \in ChannelSetups,
             tp \in {"ok", "missing_var", "bad_format"} }
    \cup { [BaseSettings EXCEPT !.repeat = r, !.events["failover"] = e, !.snooze = z] :
             r \in RepeatValues, e \in BOOLEAN,
             z \in {[enabled |-> b, until |-> Until(1)] : b \in BOOLEAN} }

Ages == {None} \cup {Some(a) : a \in 0..MaxAge}

NotificationStates ==
    [last_notification_time : [EventTypes -> Ages],
     active_issues : [EventTypes -> BOOLEAN]]

DispatchInit ==
    /\ resolve = IdleResolve
    /\ snoozer = IdleSnoozer
    /\ limiter = IdleLimiter
    /\ roundtrip = IdleRoundTrip
    /\ validation = IdleValidation
    /\ pc = "run"
    /\ startup = TRUE
    /\ previous_state = None
    /\ previous_primary_online = None
    /\ previous_secondary_online = None
    /\ previous_primary_pihole = None
    /\ previous_secondary_pihole = None
    /\ previous_primary_has_vip = None
    /\ previous_secondary_has_vip = None
    /\ notification_state \in NotificationStates
    /\ tick = IdleTick
    /\ probe = IdleProbe
    /\ \E settings \in SettingsFiles :
          dispatch = [pc |-> "ready", fn |-> "", event_type |-> "",
                      is_reminder |-> FALSE, settings |-> settings,
                      before |-> notification_state, log |-> <<>>,
                      attempts |-> <<>>, calls |-> <<>>, raised |-> FALSE]

Dispatched(fn, event_type, is_reminder, ops) ==
    \E failAt \in 0..NumWrites(ops) :
    \E st \in {dispatch_run(ops, failAt)} :
       /\ notification_state' = st.ns
       /\ dispatch' = [dispatch EXCEPT
                         !.pc = "done", !.fn = fn, !.event_type = event_type,
                         !.is_reminder = is_reminder, !.log = st.log,
                         !.attempts = st.attempts, !.calls = st.calls,
                         !.raised = st.raised]
       /\ UNCHANGED <<pc, startup, previous_state, previous_primary_online,
                      previous_secondary_online, previous_primary_pihole,
                      previous_secondary_pihole, previous_primary_has_vip,
                      previous_secondary_has_vip, tick, probe, resolve, snoozer, limiter, roundtrip, validation>>

SendNotification ==
    /\ dispatch.pc = "ready"
    /\ \E event_type \in EventTypes, is_reminder \in BOOLEAN :
          Dispatched("send_notification", event_type, is_reminder,
                     send_notification(event_type, sample_vars, is_reminder,
                                       dispatch.settings))

CheckReminders ==
    /\ dispatch.pc = "ready"
    /\ Dispatched("check_and_send_reminders", "", FALSE,
                  check_and_send_reminders(dispatch.settings, notification_state))

DispatchNext == SendNotification \/ CheckReminders

DispatchSpec == DispatchInit /\ [][DispatchNext]_vars

(***************************************************************************)
(* The monitor loop together with the request handler that shares          *)
(* notification_state with it, under one settings file.                    *)
(***************************************************************************)
\* one node owns the VIP
ApiVipResults == {v \in VipResults : (v.primary \/ v.secondary) /\ ~v.tie}

ApiTick == TickOver(TickProbeResults, ApiVipResults, ApiSettings)

ApiNext == ApiTick \/ Sleep \/ test_template_notification

ApiSpec == Init /\ [][ApiNext]_vars

(***************************************************************************)
(* check_who_has_vip on its own, one attempt of its retry loop per step,   *)
(* against every sequence of neighbour-table answers and exceptions.       *)
(***************************************************************************)
ResolveInit ==
    /\ snoozer = IdleSnoozer
    /\ limiter = IdleLimiter
    /\ roundtrip = IdleRoundTrip
    /\ validation = IdleValidation
    /\ pc = "run"
    /\ startup = TRUE
    /\ previous_state = None
    /\ previous_primary_online = None
    /\ previous_secondary_online = None
    /\ previous_primary_pihole = None
    /\ previous_secondary_pihole = None
    /\ previous_primary_has_vip = None
    /\ previous_secondary_has_vip = None
    /\ notification_state = EmptyNotificationState
    /\ tick = IdleTick
    /\ probe = IdleProbe
    /\ dispatch = IdleDispatch
    /\ resolve = [pc |-> "run", attempt |-> 0, sleeps |-> 0, history |-> <<>>,
                  result |-> None]

\* the answers of one attempt: every answer for the VIP; for a node no answer
\* or an answer with its link-layer address
ResolveAttempts ==
    {a \in ArpAttempts :
        ~a.exc => \A o \in {a.primary, a.secondary} :
                     o = <<>> \/ ~IsNone(extract_mac(o))}

\* the backoff sleep of every attempt but one, instead of every attempt but the last
retry_allowed_always(attempt) == attempt # max_retries

\* "if attempt < max_retries - 1": sleep one second and try again
retry_allowed(attempt) == attempt < max_retries - 1

\* return primary_has_vip, secondary_has_vip
vip_return(primary, secondary) ==
    [resolve EXCEPT !.pc = "done", !.result = Some(<<primary, secondary>>)]

\* one iteration of "for attempt in range(max_retries)", and the return behind
\* the loop when the iteration was its last and returned nothing
VipAttempt ==
    /\ resolve.pc = "run"
    /\ resolve.attempt < max_retries
    /\ \E a \in ResolveAttempts :
       \E d \in {vip_decision(a)} :
       \E r \in {[resolve EXCEPT !.history = Append(@, a)]} :
          resolve' =
            IF d = "primary" THEN [vip_return(TRUE, FALSE) EXCEPT !.history = r.history]
            ELSE IF d = "secondary"
            THEN [vip_return(FALSE, TRUE) EXCEPT !.history = r.history]
            ELSE IF d \in {"retry", "error"} /\ retry_allowed(resolve.attempt)
            THEN IF resolve.attempt + 1 < max_retries
                 THEN [r EXCEPT !.attempt = @ + 1, !.sleeps = @ + 1]
                 ELSE [vip_return(FALSE, FALSE) EXCEPT !.history = r.history,
                                                      !.sleeps = @ + 1]
            ELSE [vip_return(FALSE, FALSE) EXCEPT !.history = r.history]
    /\ UNCHANGED <<pc, startup, previous_state, previous_primary_online,
                   previous_secondary_online, previous_primary_pihole,
                   previous_secondary_pihole, previous_primary_has_vip,
                   previous_secondary_has_vip, notification_state, tick, probe,
                   dispatch, snoozer, limiter, roundtrip, validation>>

ResolveSpec == ResolveInit /\ [][VipAttempt]_vars /\ WF_vars(VipAttempt)

(***************************************************************************)
(* The snooze endpoints and the dispatcher around one settings file.       *)
(* snoozer.store is the file; snoozer.status and snoozer.armed record what *)
(* the endpoints last answered (the time left of the snooze last granted), *)
(* snoozer.gate whether the last dispatch returned at its snooze check.    *)
(***************************************************************************)
\* json.load of a file that holds {}: every section takes its default
EmptySettings ==
    [BaseSettings EXCEPT !.channels = [c \in Channels |-> "disabled"],
                         !.repeat = [enabled |-> FALSE, interval |-> 0]]

\* settings = {} unless the file exists and parses
load_existing(store) == IF store.file = "ok" THEN store ELSE EmptySettings

\* the settings of the first dispatch kept for the later ones
settings_read_cached(store, earlier) ==
    IF IsNone(earlier) THEN store ELSE Val(earlier)

\* open(config_path, 'r') and json.load(f) in every call of send_notification
settings_read(store, earlier) == store

\* settings['snooze'] as set_snooze and cancel_snooze assign it
snooze_on(duration_minutes) ==
    [enabled |-> TRUE, until |-> Until(minutes(duration_minutes))]
snooze_off == [enabled |-> FALSE, until |-> NoUntil]

\* open(config_path, 'w') and json.dump: done, refused by open (the file is
\* as before), or failed after open truncated the file
WriteOutcomes == {"ok", "refused", "truncated"}
write_settings(store, settings, write) ==
    IF write = "ok" THEN settings
    ELSE IF write = "refused" THEN store
    ELSE [store EXCEPT !.file = "unreadable"]

\* the durations asked for: 0 and MaxDuration + 1 are answered with 400
SnoozeDurations == 0..MaxSnoozeMinutes \cup {MaxDuration + 1}

SnoozeStores ==
    { BaseSettings,
      [BaseSettings EXCEPT !.file = "missing"],
      [BaseSettings EXCEPT !.file = "unreadable"],
      [BaseSettings EXCEPT !.snooze = [enabled |-> TRUE, until |-> Until(1)]] }

SnoozeInit ==
    /\ limiter = IdleLimiter
    /\ resolve = IdleResolve
    /\ roundtrip = IdleRoundTrip
    /\ validation = IdleValidation
    /\ pc = "run"
    /\ startup = TRUE
    /\ previous_state = None
    /\ previous_primary_online = None
    /\ previous_secondary_online = None
    /\ previous_primary_pihole = None
    /\ previous_secondary_pihole = None
    /\ previous_primary_has_vip = None
    /\ previous_secondary_has_vip = None
    /\ notification_state = EmptyNotificationState
    /\ tick = IdleTick
    /\ probe = IdleProbe
    /\ dispatch = IdleDispatch
    /\ \E store \in SnoozeStores :
          snoozer = [pc |-> "serving", store |-> store, status |-> "none",
                     armed |-> 0, last |-> "none", ok |-> FALSE,
                     read |-> None, gate |-> FALSE, attempts |-> <<>>]

\* the part the two endpoints share: write the file, log the event, answer
snooze_endpoint(name, entry, remaining) ==
    \E write \in WriteOutcomes, log_ok \in BOOLEAN :
    \E ok \in {write = "ok" /\ log_ok} :
       snoozer' = [snoozer EXCEPT
                     !.store = write_settings(snoozer.store,
                                 [load_existing(snoozer.store) EXCEPT !.snooze = entry],
                                 write),
                     !.last = name, !.ok = ok,
                     !.status = IF ok THEN name ELSE "unknown",
                     !.armed = IF ok THEN remaining ELSE 0]

\* POST /api/notifications/snooze
set_snooze ==
    /\ snoozer.pc = "serving"
    /\ \E duration_minutes \in SnoozeDurations :
          IF duration_minutes <= 0 \/ duration_minutes > MaxDuration
          THEN snoozer' = [snoozer EXCEPT !.last = "set_snooze", !.ok = FALSE]
          ELSE snooze_endpoint("set_snooze", snooze_on(duration_minutes),
                               minutes(duration_minutes))
    /\ UNCHANGED <<pc, startup, previous_state, previous_primary_online,
                   previous_secondary_online, previous_primary_pihole,
                   previous_secondary_pihole, previous_primary_has_vip,
                   previous_secondary_has_vip, notification_state, tick, probe,
                   dispatch, resolve, limiter, roundtrip, validation>>

\* DELETE /api/notifications/snooze
cancel_snooze ==
    /\ snoozer.pc = "serving"
    /\ snooze_endpoint("cancel_snooze", snooze_off, 0)
    /\ UNCHANGED <<pc, startup, previous_state, previous_primary_online,
                   previous_secondary_online, previous_primary_pihole,
                   previous_secondary_pihole, previous_primary_has_vip,
                   previous_secondary_has_vip, notification_state, tick, probe,
                   dispatch, resolve, limiter, roundtrip, validation>>

\* a call of send_notification, by the loop or by a test endpoint
SnoozeSend ==
    /\ snoozer.pc = "serving"
    /\ \E event_type \in EventTypes :
       \E settings \in {settings_read(snoozer.store, snoozer.read)} :
       \E ops \in {send_notification(event_type, sample_vars, FALSE, settings)} :
       \E failAt \in 0..NumWrites(ops) :
       \E st \in {dispatch_run(ops, failAt)} :
          /\ notification_state' = st.ns
          /\ snoozer' = [snoozer EXCEPT
                           !.last = "send", !.ok = ~st.raised,
                           !.read = Some(settings),
                           !.gate = settings.file = "ok" /\ is_snoozed(settings),
                           !.attempts = st.attempts]
    /\ UNCHANGED <<pc, startup, previous_state, previous_primary_online,
                   previous_secondary_online, previous_primary_pihole,
                   previous_secondary_pihole, previous_primary_has_vip,
                   previous_secondary_has_vip, tick, probe, dispatch, resolve, limiter, roundtrip, validation>>

\* one time unit passes: every deadline comes one unit nearer
later(until) ==
    IF until.kind = "time" /\ until.delta > -1 THEN Until(until.delta - 1) ELSE until

TimePasses ==
    /\ snoozer.pc = "serving"
    /\ snoozer' = [snoozer EXCEPT
                     !.store.snooze.until = later(@),
                     !.read = IF IsNone(@) THEN @
                              ELSE Some([Val(@) EXCEPT !.snooze.until = later(@)]),
                     !.armed = IF @ > 0 THEN @ - 1 ELSE 0,
                     !.last = "time"]
    /\ notification_state' =
         [notification_state EXCEPT
            !.last_notification_time = [t \in EventTypes |-> bump(@[t])]]
    /\ UNCHANGED <<pc, startup, previous_state, previous_primary_online,
                   previous_secondary_online, previous_primary_pihole,
                   previous_secondary_pihole, previous_primary_has_vip,
                   previous_secondary_has_vip, tick, probe, dispatch, resolve, limiter, roundtrip, validation>>

SnoozeNext == set_snooze \/ cancel_snooze \/ SnoozeSend \/ TimePasses

SnoozeSpec == SnoozeInit /\ [][SnoozeNext]_vars

(***************************************************************************)
(* The two rate limiters.  A timestamp is kept as its age, now - ts, in    *)
(* seconds; ages of a window or more are kept as the window.               *)
(* limiter.store is rate_limit_store or command_rate_limit_store,          *)
(* limiter.accepted the ages below the window of the requests that passed, *)
(* limiter.last the request just answered and the store it found.          *)
(***************************************************************************)
RATE_LIMIT_REQUESTS == 3
RATE_LIMIT_WINDOW == 60
COMMAND_RATE_LIMIT_REQUESTS == 5
COMMAND_RATE_LIMIT_WINDOW == 60

Clients == {"192.0.2.1", "192.0.2.2"}

\* the check let through one request too many
at_limit_one_late(entries, requests) == Len(entries) > requests

\* if len(store[client_ip]) >= REQUESTS: raise HTTPException(429)
at_limit(entries, requests) == Len(entries) >= requests

\* [ts for ts in store[client_ip] if now - ts < WINDOW]
clean_old(entries, window) ==
    LET recent(age) == age < window IN SelectSeq(entries, recent)

\* the body both limiters share: clean, check, append now
rate_check(entries, requests, window) ==
    LET cleaned == clean_old(entries, window) IN
    IF at_limit(cleaned, requests)
    THEN [status |-> 429, entries |-> cleaned]
    ELSE [status |-> 200, entries |-> Append(cleaned, 0)]

LimiterInit ==
    /\ resolve = IdleResolve
    /\ snoozer = IdleSnoozer
    /\ roundtrip = IdleRoundTrip
    /\ validation = IdleValidation
    /\ pc = "run"
    /\ startup = TRUE
    /\ previous_state = None
    /\ previous_primary_online = None
    /\ previous_secondary_online = None
    /\ previous_primary_pihole = None
    /\ previous_secondary_pihole = None
    /\ previous_primary_has_vip = None
    /\ previous_secondary_has_vip = None
    /\ notification_state = EmptyNotificationState
    /\ tick = IdleTick
    /\ probe = IdleProbe
    /\ dispatch = IdleDispatch
    /\ \E name \in {"rate_limit_check", "command_rate_limit_check"} :
          limiter = [pc |-> name,
                     requests |-> IF name = "rate_limit_check"
                                  THEN RATE_LIMIT_REQUESTS
                                  ELSE COMMAND_RATE_LIMIT_REQUESTS,
                     window |-> IF name = "rate_limit_check"
                                THEN RATE_LIMIT_WINDOW
                                ELSE COMMAND_RATE_LIMIT_WINDOW,
                     store |-> [c \in Clients |-> <<>>],
                     accepted |-> [c \in Clients |-> <<>>],
                     last |-> None]

\* a request by client_ip through the limiter called name
limited_request(name, requests, window) ==
    /\ limiter.pc = name
    /\ \E client_ip \in Clients :
       \E r \in {rate_check(limiter.store[client_ip], requests, window)} :
          limiter' = [limiter EXCEPT
                        !.store[client_ip] = r.entries,
                        !.accepted[client_ip] =
                            IF r.status = 200 THEN Append(@, 0) ELSE @,
                        !.last = Some([client_ip |-> client_ip,
                                       status |-> r.status,
                                       store |-> limiter.store])]
    /\ UNCHANGED <<pc, startup, previous_state, previous_primary_online,
                   previous_secondary_online, previous_primary_pihole,
                   previous_secondary_pihole, previous_primary_has_vip,
                   previous_secondary_has_vip, notification_state, tick, probe,
                   dispatch, resolve, snoozer, roundtrip, validation>>

rate_limit_check ==
    limited_request("rate_limit_check", RATE_LIMIT_REQUESTS, RATE_LIMIT_WINDOW)

command_rate_limit_check ==
    limited_request("command_rate_limit_check", COMMAND_RATE_LIMIT_REQUESTS,
                    COMMAND_RATE_LIMIT_WINDOW)

\* the clock read by the next request is SecondsPerStep later
older(entries, window) ==
    [i \in DOMAIN entries |->
        IF entries[i] + SecondsPerStep < window
        THEN entries[i] + SecondsPerStep ELSE window]

\* the accepted requests that lie less than a window back
in_window(ages, window) ==
    LET inside(age) == age < window IN SelectSeq(ages, inside)

ClockAdvances ==
    /\ limiter.pc # "idle"
    /\ limiter' = [limiter EXCEPT
                     !.store = [c \in Clients |-> older(@[c], limiter.window)],
                     !.accepted = [c \in Clients |->
                                     in_window(older(@[c], limiter.window),
                                               limiter.window)],
                     !.last = None]
    /\ UNCHANGED <<pc, startup, previous_state, previous_primary_online,
                   previous_secondary_online, previous_primary_pihole,
                   previous_secondary_pihole, previous_primary_has_vip,
                   previous_secondary_has_vip, notification_state, tick, probe,
                   dispatch, resolve, snoozer, roundtrip, validation>>

LimiterNext == rate_limit_check \/ command_rate_limit_check \/ ClockAdvances

LimiterSpec == LimiterInit /\ [][LimiterNext]_vars

(***************************************************************************)
(* The settings endpoints: GET answers mask_sensitive_data of the stored   *)
(* settings, POST stores merge_settings of the stored and the posted ones. *)
(* A JSON value is a record of its type t and its text v, a string being   *)
(* the sequence of its characters ("bullet" is the character U+2022); a    *)
(* dict is a function on its keys.                                         *)
(***************************************************************************)
Str(chars) == [t |-> "str", v |-> chars]
Null == [t |-> "null", v |-> <<>>]
Num(digits) == [t |-> "num", v |-> digits]
False == [t |-> "false", v |-> <<>>]
Absent == [t |-> "absent", v |-> <<>>]      \* stands for "the key is not there"

\* bool(value) for the values above
truthy(value) ==
    \/ value.t = "str" /\ value.v # <<>>
    \/ value.t = "num" /\ value.v # <<"0">>

Bullets(n) == [i \in 1..n |-> "bullet"]
\* s[-n:]
last_chars(s, n) == IF Len(s) <= n THEN s ELSE SubSeq(s, Len(s) - n + 1, Len(s))

\* the fields mask_sensitive_data treats, in its order, with the number of
\* bullets put in front and of characters kept
SensitiveFields ==
    << [service |-> "telegram", key |-> "bot_token", bullets |-> 8, kept |-> 4],
       [service |-> "telegram", key |-> "chat_id", bullets |-> 4, kept |-> 4],
       [service |-> "discord", key |-> "webhook_url", bullets |-> 8, kept |-> 8],
       [service |-> "pushover", key |-> "user_key", bullets |-> 8, kept |-> 4],
       [service |-> "pushover", key |-> "app_token", bullets |-> 8, kept |-> 4],
       [service |-> "webhook", key |-> "url", bullets |-> 8, kept |-> 8] >>

\* settings.get(service, {}).get(key), Absent for Python's None of a missing key
get2(settings, service, key) ==
    IF service \in DOMAIN settings /\ key \in DOMAIN settings[service]
    THEN settings[service][key] ELSE Absent

\* if masked.get(service, {}).get(key):
is_set(settings, f) ==
    LET value == get2(settings, f.service, f.key) IN
    value # Absent /\ truthy(value)

\* value[-4:] of a value that is no string raises TypeError
mask_raises(settings) ==
    \E i \in DOMAIN SensitiveFields :
       /\ is_set(settings, SensitiveFields[i])
       /\ get2(settings, SensitiveFields[i].service, SensitiveFields[i].key).t # "str"

RECURSIVE mask_fields(_, _)
mask_fields(masked, i) ==
    IF i > Len(SensitiveFields) THEN masked
    ELSE LET f == SensitiveFields[i] IN
         mask_fields(IF is_set(masked, f)
                     THEN [masked EXCEPT ![f.service][f.key] =
                             Str(Bullets(f.bullets) \o last_chars(@.v, f.kept))]
                     ELSE masked,
                     i + 1)

mask_sensitive_data(settings) == mask_fields(settings, 1)

\* value.startswith(four bullets) or value.startswith('****')
is_masked_value(value) ==
    /\ value.t = "str"
    /\ Len(value.v) >= 4
    /\ SubSeq(value.v, 1, 4) \in {Bullets(4), <<"*", "*", "*", "*">>}

merge_settings(existing, new) ==
    [service \in DOMAIN existing \cup DOMAIN new |->
       IF service \notin DOMAIN new THEN existing[service]
       ELSE LET old == IF service \in DOMAIN existing THEN existing[service] ELSE <<>>
                config == new[service]
                keys == DOMAIN old \cup
                        {key \in DOMAIN config : config[key] # Null \/ key \in DOMAIN old}
            IN [key \in keys |->
                  IF key \notin DOMAIN config THEN old[key]
                  ELSE IF config[key] = Null THEN old[key]
                  ELSE IF is_masked_value(config[key])
                  THEN (IF key \in DOMAIN old THEN old[key] ELSE Str(<<>>))
                  ELSE config[key]]]

\* the settings before anything was entered
DefaultSettings ==
    [service \in {"telegram", "discord", "pushover", "ntfy", "webhook", "snooze"} |->
       IF service = "telegram"
       THEN [key \in {"enabled", "bot_token", "chat_id"} |->
               IF key = "enabled" THEN False ELSE Str(<<>>)]
       ELSE IF service = "discord"
       THEN [key \in {"enabled", "webhook_url"} |->
               IF key = "enabled" THEN False ELSE Str(<<>>)]
       ELSE IF service = "pushover"
       THEN [key \in {"enabled", "user_key", "app_token"} |->
               IF key = "enabled" THEN False ELSE Str(<<>>)]
       ELSE IF service = "ntfy"
       THEN [key \in {"enabled", "topic", "server"} |->
               IF key = "enabled" THEN False
               ELSE IF key = "topic" THEN Str(<<>>) ELSE Str(<<"h", "t", "t", "p">>)]
       ELSE IF service = "webhook"
       THEN [key \in {"enabled", "url"} |->
               IF key = "enabled" THEN False ELSE Str(<<>>)]
       ELSE [key \in {"enabled", "until"} |->
               IF key = "enabled" THEN False ELSE Null]]

\* a string of n characters that ends in "z"
Text(first, n) == [i \in 1..n |-> IF i = n THEN "z" ELSE first]

\* what a credential field of the stored file may hold
SecretValues ==
    { Absent, Null, Num(<<"4", "2">>), Str(<<>>) } \cup
    { Str(Text(first, n)) : first \in {"x", "*", "bullet"}, n \in 1..MaxSecretLen }

\* the stored settings with field f holding value (or lacking the key)
with_field(settings, f, value) ==
    IF value = Absent
    THEN [settings EXCEPT ![f.service] =
            [key \in DOMAIN @ \ {f.key} |-> @[key]]]
    ELSE [settings EXCEPT ![f.service][f.key] = value]

StoredSettings ==
    { with_field(with_field(DefaultSettings, SensitiveFields[i], v),
                 SensitiveFields[j], w) :
        i \in DOMAIN SensitiveFields, j \in DOMAIN SensitiveFields,
        v \in SecretValues, w \in SecretValues }

RoundTripInit ==
    /\ limiter = IdleLimiter
    /\ resolve = IdleResolve
    /\ snoozer = IdleSnoozer
    /\ validation = IdleValidation
    /\ pc = "run"
    /\ startup = TRUE
    /\ previous_state = None
    /\ previous_primary_online = None
    /\ previous_secondary_online = None
    /\ previous_primary_pihole = None
    /\ previous_secondary_pihole = None
    /\ previous_primary_has_vip = None
    /\ previous_secondary_has_vip = None
    /\ notification_state = EmptyNotificationState
    /\ tick = IdleTick
    /\ probe = IdleProbe
    /\ dispatch = IdleDispatch
    /\ \E settings \in StoredSettings :
          roundtrip = [pc |-> "stored", file |-> settings, was |-> settings,
                       answer |-> <<>>, status |-> 0]

\* GET /api/notifications/settings: the masked settings, or 500 when
\* mask_sensitive_data raises
get_notification_settings ==
    /\ roundtrip.pc = "stored"
    /\ roundtrip' =
         IF mask_raises(roundtrip.file)
         THEN [roundtrip EXCEPT !.pc = "failed", !.status = 500]
         ELSE [roundtrip EXCEPT !.pc = "read", !.status = 200,
                                !.answer = mask_sensitive_data(roundtrip.file)]
    /\ UNCHANGED <<pc, startup, previous_state, previous_primary_online,
                   previous_secondary_online, previous_primary_pihole,
                   previous_secondary_pihole, previous_primary_has_vip,
                   previous_secondary_has_vip, notification_state, tick, probe,
                   dispatch, resolve, snoozer, limiter, validation>>

\* POST /api/notifications/settings with the settings just read
save_notification_settings ==
    /\ roundtrip.pc = "read"
    /\ roundtrip' = [roundtrip EXCEPT
                       !.pc = "saved",
                       !.file = merge_settings(roundtrip.file, roundtrip.answer)]
    /\ UNCHANGED <<pc, startup, previous_state, previous_primary_online,
                   previous_secondary_online, previous_primary_pihole,
                   previous_secondary_pihole, previous_primary_has_vip,
                   previous_secondary_has_vip, notification_state, tick, probe,
                   dispatch, resolve, snoozer, limiter, validation>>

RoundTripNext == get_notification_settings \/ save_notification_settings

RoundTripSpec == RoundTripInit /\ [][RoundTripNext]_vars

(***************************************************************************)
(* The validators of SetupConfig (src/setup.py).  A string is the sequence *)
(* of its characters; "backquote", "newline" and "return" are the         *)
(* characters U+0060, U+000A and U+000D.                                   *)
(***************************************************************************)
NameChars == {"a", "Z", "0", ".", "_", "-"}        \* of the class [a-zA-Z0-9._-]
OtherChars == {";", "|", "&", "$", "backquote", "(", "/", " ", "@",
               "newline", "return"}

Repeat(c, n) == [i \in 1..n |-> c]

\* re.match(r'^[a-zA-Z0-9._-]{1,15}$', s): the class repeated 1 to 15 times
\* from the start, then $, which matches at the end of the string and also
\* just before a newline that ends the string
matches_pattern(s) ==
    \E n \in 1..15 :
       /\ n <= Len(s)
       /\ \A i \in 1..n : s[i] \in NameChars
       /\ \/ n = Len(s)
          \/ n + 1 = Len(s) /\ s[n + 1] = "newline"

validate_interface_name(interface) ==
    IF interface = <<>> THEN FALSE     \* if not interface: return False
    ELSE matches_pattern(interface)

\* the names tried: at most one character, a run of letters, at most two
\* characters
Affixes(n) == UNION {[1..k -> NameChars \cup OtherChars] : k \in 0..n}
InterfaceNames ==
    {head \o Repeat("a", n) \o tail :
        head \in Affixes(1), n \in 0..MaxNameLen, tail \in Affixes(2)}

\* a port argument: an int, a float (whole part n, fraction frac in
\* hundredths), a str (its characters in s) or None
PortInt(n) == [t |-> "int", n |-> n, frac |-> 0, s |-> <<>>]
PortFloat(n, frac) == [t |-> "float", n |-> n, frac |-> frac, s |-> <<>>]
PortStr(s) == [t |-> "str", n |-> 0, frac |-> 0, s |-> s]
PortNone == [t |-> "none", n |-> 0, frac |-> 0, s |-> <<>>]

Digits == <<"0", "1", "2", "3", "4", "5", "6", "7", "8", "9">>
digit_value(c) == CHOOSE d \in 0..9 : Digits[d + 1] = c
is_digit(c) == \E d \in 0..9 : Digits[d + 1] = c

RECURSIVE digits_value(_)
digits_value(s) ==
    IF s = <<>> THEN 0
    ELSE 10 * digits_value(SubSeq(s, 1, Len(s) - 1)) + digit_value(s[Len(s)])

RECURSIVE strip(_)
strip(s) ==
    IF s # <<>> /\ s[1] = " " THEN strip(Tail(s))
    ELSE IF s # <<>> /\ s[Len(s)] = " " THEN strip(SubSeq(s, 1, Len(s) - 1))
    ELSE s

\* int(s) of a str: blanks around, an optional sign, digits; anything else
\* raises ValueError (None stands for the exception)
int_of_str(s) ==
    LET body == strip(s)
        signed == body # <<>> /\ body[1] \in {"+", "-"}
        digits == IF signed THEN Tail(body) ELSE body
    IN IF digits = <<>> \/ \E i \in DOMAIN digits : ~is_digit(digits[i]) THEN None
       ELSE Some(IF signed /\ body[1] = "-"
                 THEN 0 - digits_value(digits) ELSE digits_value(digits))

\* int(port): an int is itself, a float is cut to its whole part, a str is
\* parsed, None raises TypeError
int_of(port) ==
    IF port.t = "int" THEN Some(port.n)
    ELSE IF port.t = "float" THEN Some(port.n)
    ELSE IF port.t = "str" THEN int_of_str(port.s)
    ELSE None

validate_port(port) ==
    LET port_num == int_of(port) IN
    IF IsNone(port_num) THEN FALSE       \* except (ValueError, TypeError)
    ELSE 1 <= Val(port_num) /\ Val(port_num) <= 65535

PortNumbers == {-1, 0, 1, 3, 22, 65535, 65536, 99999}
PortTexts ==
    { <<>>, <<"a", "b", "c">>, <<"3", ".", "1", "4">>, <<"8", "0">>, <<" ", "8", "0">>,
      <<"0">>, <<"1">>, <<"-", "1">>, <<"+", "2", "2">>,
      <<"6", "5", "5", "3", "5">>, <<"6", "5", "5", "3", "6">> }
PortArguments ==
    {PortInt(n) : n \in PortNumbers}
      \cup {PortFloat(n, frac) : n \in PortNumbers, frac \in {0, 14}}
      \cup {PortStr(s) : s \in PortTexts}
      \cup {PortNone}

ValidateInit ==
    /\ roundtrip = IdleRoundTrip
    /\ limiter = IdleLimiter
    /\ resolve = IdleResolve
    /\ snoozer = IdleSnoozer
    /\ pc = "run"
    /\ startup = TRUE
    /\ previous_state = None
    /\ previous_primary_online = None
    /\ previous_secondary_online = None
    /\ previous_primary_pihole = None
    /\ previous_secondary_pihole = None
    /\ previous_primary_has_vip = None
    /\ previous_secondary_has_vip = None
    /\ notification_state = EmptyNotificationState
    /\ tick = IdleTick
    /\ probe = IdleProbe
    /\ dispatch = IdleDispatch
    /\ \/ \E interface \in InterfaceNames :
             validation = [pc |-> "interface", name |-> interface,
                           port |-> PortNone, result |-> FALSE]
       \/ \E port \in PortArguments :
             validation = [pc |-> "port", name |-> <<>>,
                           port |-> port, result |-> FALSE]

ValidateInterface ==
    /\ validation.pc = "interface"
    /\ validation' = [validation EXCEPT
                        !.pc = "interface_done",
                        !.result = validate_interface_name(validation.name)]
    /\ UNCHANGED <<pc, startup, previous_state, previous_primary_online,
                   previous_secondary_online, previous_primary_pihole,
                   previous_secondary_pihole, previous_primary_has_vip,
                   previous_secondary_has_vip, notification_state, tick, probe,
                   dispatch, resolve, snoozer, limiter, roundtrip>>

ValidatePort ==
    /\ validation.pc = "port"
    /\ validation' = [validation EXCEPT
                        !.pc = "port_done",
                        !.result = validate_port(validation.port)]
    /\ UNCHANGED <<pc, startup, previous_state, previous_primary_online,
                   previous_secondary_online, previous_primary_pihole,
                   previous_secondary_pihole, previous_primary_has_vip,
                   previous_secondary_has_vip, notification_state, tick, probe,
                   dispatch, resolve, snoozer, limiter, roundtrip>>

ValidateNext == ValidateInterface \/ ValidatePort

ValidateSpec == ValidateInit /\ [][ValidateNext]_vars

(***************************************************************************)
(* The loop under the scheduling of the event loop: the monitor task is    *)
(* resumed whenever it can run, and asyncio.sleep returns.  The nodes are  *)
(* either offline or fully up and one of them holds the VIP; every write   *)
(* of a tick may raise.                                                    *)
(***************************************************************************)
HistoryProbeResults == {r \in TickProbeResults : ~r.dhcp_enabled}
SteadyProbeResults == {r \in TickProbeResults : r.online = r.dhcp_enabled}
SteadyVipResults == {v \in VipResults : (v.primary \/ v.secondary) /\ ~v.tie}
SteadySettings == {[BaseSettings EXCEPT !.file = "missing"]}

SteadyTick == TickOver(SteadyProbeResults, SteadyVipResults, SteadySettings)

FairNext == SteadyTick \/ Sleep

FairSpec == Init /\ [][FairNext]_vars /\ WF_vars(SteadyTick) /\ WF_vars(Sleep)

\* the loop with the history of the tick before kept for the next one
HistoryTick == TickOver(HistoryProbeResults, SteadyVipResults, SteadySettings)

HistoryNext == HistoryTick \/ SleepRemembering

HistorySpec == Init /\ [][HistoryNext]_vars

(***************************************************************************)
(* Properties of the monitor loop (Spec, FairSpec).  They are stated on    *)
(* `tick`, the record of the iteration that just ended.                    *)
(***************************************************************************)
\* the events of the tick, without the snapshot row marker
TickEventIdx == {i \in DOMAIN tick.log : tick.log[i].kind # "snapshot"}

\* a previous tick resolved a role and this tick resolves the other one
RoleDiffers ==
    /\ ~IsNone(tick.seen)
    /\ Val(tick.seen) # tick.obs.current_master

FailoverCount == CountKind(tick.log, "failover")

\* the observation of the tick, in the shape of the previous_* variables
ObservedPrevious ==
    [state |-> Some(tick.obs.current_master),
     primary_online |-> Some(tick.obs.primary_data.online),
     secondary_online |-> Some(tick.obs.secondary_data.online),
     primary_pihole |-> Some(tick.obs.primary_data.pihole),
     secondary_pihole |-> Some(tick.obs.secondary_data.pihole),
     primary_has_vip |-> Some(tick.obs.primary_has_vip),
     secondary_has_vip |-> Some(tick.obs.secondary_has_vip)]

\* C1: a tick logs exactly one 'failover' event when a previous role exists and
\* the resolved role differs from the role the previous tick resolved, and none
\* in every other tick.  Stated for the ticks in which every write succeeds,
\* the ticks that are able to log the event.
C1_ExactlyOneFailoverPerRoleChange ==
    tick.done /\ ~tick.raised => FailoverCount = (IF RoleDiffers THEN 1 ELSE 0)

\* the startup case: a tick that has no previous state to diff against
FirstTick == tick.done /\ IsNone(tick.before.previous.state)

DhcpMismatch(node_state, dhcp) ==
    \/ node_state = "MASTER" /\ ~dhcp
    \/ node_state = "BACKUP" /\ dhcp

IsDhcpWarning(ev) ==
    /\ ev.kind = "warning"
    /\ ev.msg \in {"dhcp_master_disabled", "dhcp_backup_enabled"}

\* C2 as stated: the first tick logs only events of kind 'info'.
C2_FirstTickOnlyInfo ==
    FirstTick => \A i \in TickEventIdx : tick.log[i].kind = "info"

\* the events send_notification logs for a reminder
IsReminderEvent(ev) ==
    \/ ev.kind = "notification"
    \/ /\ ev.kind = "warning"
       /\ ev.msg \in {"notification_failed", "template_error", "settings_load_failed"}

ReminderCalls ==
    {i \in DOMAIN tick.calls : tick.calls[i].info[1] = "reminder"}

\* C2 amended: the first tick logs no transition event (no 'success', no
\* 'failover', no online/offline, service or VIP-switch 'warning'): besides its
\* 'info' events it logs only DHCP-misconfiguration warnings, for a node whose
\* DHCP flag does not fit its role, the events of a reminder it sends for a
\* notification the test endpoint sent earlier, and one final 'error' event
\* when it raises.
C2_FirstTickNoTransitionEvents ==
    FirstTick =>
        /\ \A i \in TickEventIdx :
              \/ tick.log[i].kind = "info" /\ tick.log[i].msg # "failover_reason"
              \/ /\ IsDhcpWarning(tick.log[i])
                 /\ \/ /\ tick.log[i].info = <<"Primary">>
                       /\ DhcpMismatch(tick.obs.primary_state,
                                       tick.obs.primary_data.dhcp_enabled)
                    \/ /\ tick.log[i].info = <<"Secondary">>
                       /\ DhcpMismatch(tick.obs.secondary_state,
                                       tick.obs.secondary_data.dhcp_enabled)
              \/ IsReminderEvent(tick.log[i]) /\ ReminderCalls # {}
              \/ tick.log[i].kind = "error" /\ tick.raised /\ i = Len(tick.log)
        /\ Cardinality(ReminderCalls) <= Cardinality(EventTypes)
        /\ tick.before.startup /\ ~tick.raised => CountKind(tick.log, "info") = 3

\* C2 witness: a first tick that ran to completion and logged a DHCP warning.
C2_Witness ==
    /\ FirstTick /\ tick.before.startup /\ ~tick.raised
    /\ \E i \in TickEventIdx : IsDhcpWarning(tick.log[i])

\* the messages monitor_loop logs for an observation in which one node, or no
\* node, has the VIP's link-layer address
OrdinaryMsgs ==
    {"monitor_started", "primary_status", "secondary_status", "went_offline",
     "back_online", "service_down", "service_up", "vip_switched", "became_master",
     "failover_reason", "notification_sent", "notification_failed",
     "settings_load_failed", "template_error", "dhcp_master_disabled",
     "dhcp_backup_enabled", "monitor_error"}

\* C3 as stated: a tick in which both nodes' link-layer addresses equal the
\* VIP's logs an event that flags the anomaly, an event an ordinary
\* observation does not produce.
C3_TieIsFlagged ==
    tick.done /\ tick.obs.tie /\ ~tick.raised =>
        \E i \in TickEventIdx : tick.log[i].msg \notin OrdinaryMsgs

\* C4 as stated: when a tick raises and log_event raises in the exception
\* handler too, monitor_loop still reaches its sleep and goes on.
C4_LoggingFailureSwallowed ==
    tick.done /\ tick.raised /\ ~tick.handler_ok => pc = "sleep"

\* C5: a tick that raises while log_event works in the handler logs exactly one
\* 'error' event, as its last event, and reaches the sleep; the sleep leads to
\* the next tick; and unless the task has died, ticks start again and again.
C5_FailedTickIsLoggedAndLoopGoesOn ==
    /\ [](tick.done /\ tick.raised /\ tick.handler_ok =>
            /\ pc = "sleep"
            /\ CountKind(tick.log, "error") = 1
            /\ tick.log[Len(tick.log)].kind = "error")
    /\ ((pc = "sleep") ~> (pc = "run"))
    /\ ([]<>(pc = "run" /\ ~tick.done) \/ <>(pc = "dead"))

\* C5 witness: a tick raised, its error was logged, and the loop is at its sleep.
C5_Witness ==
    /\ tick.done /\ tick.raised /\ tick.handler_ok /\ pc = "sleep"
    /\ ~IsNone(tick.before.previous.state)

\* C6: after every tick, one that ended in the exception handler included, the
\* previous_* values the next tick diffs against are the observation of the
\* tick that just ended.
C6_PreviousIsLastObservation ==
    tick.done /\ pc = "sleep" => CurrentPrevious = ObservedPrevious

\* the node that lost mastership in a tick whose role differs, and the reason
\* the classification of C7 gives: offline, else service down, else unknown
LostIsPrimary == Val(tick.seen) = "primary"
LostData == IF LostIsPrimary THEN tick.obs.primary_data ELSE tick.obs.secondary_data

ExpectedReason ==
    IF ~LostData.online
    THEN (IF LostIsPrimary THEN "Primary is offline" ELSE "Secondary is offline")
    ELSE IF ~LostData.pihole
    THEN (IF LostIsPrimary THEN "Pi-hole service on Primary is down"
          ELSE "Pi-hole service on Secondary is down")
    ELSE "Unknown"

\* the calls of send_notification for the failover itself
FailoverCallIdx ==
    {i \in DOMAIN tick.calls :
        tick.calls[i].msg = "failover" /\ tick.calls[i].info[1] = "initial"}
ReasonEventIdx == {i \in DOMAIN tick.log : tick.log[i].msg = "failover_reason"}

\* every reason the tick logged or passed to the notification is the expected one
ReasonsAreExpected ==
    /\ \A i \in FailoverCallIdx : tick.calls[i].info[5] = ExpectedReason
    /\ \A i \in ReasonEventIdx : tick.log[i].info = <<ExpectedReason>>

\* C7: a tick in which the role changes logs exactly one 'failover' event, and
\* the reason it logs and hands to the notification is classified from the
\* tick's own health data: offline if the node that lost mastership is
\* unreachable, else service down if its service is down, else unknown.
\* Stated for the ticks in which every write succeeds.
C7_FailoverReasonOnRoleChange ==
    tick.done /\ ~tick.raised /\ RoleDiffers =>
        /\ FailoverCount = 1
        /\ FailoverCallIdx # {}
        /\ Cardinality(ReasonEventIdx) = (IF ExpectedReason = "Unknown" THEN 0 ELSE 1)
        /\ ReasonsAreExpected

(***************************************************************************)
(* Properties of the dispatcher (DispatchSpec), stated on `dispatch`, the  *)
(* record of the call that just returned or raised.                        *)
(***************************************************************************)
\* snooze is active: snooze.enabled and the current time is before snooze.until
SnoozeActive(settings) ==
    /\ settings.file = "ok"
    /\ settings.snooze.enabled
    /\ settings.snooze.until.kind = "time"
    /\ settings.snooze.until.delta >= 1

SentOne == dispatch.pc = "done" /\ dispatch.fn = "send_notification"

\* C8: send_notification called under active snooze posts to no channel, logs
\* no 'notification' and no 'warning' event and leaves last_notification_time
\* as it was, for initial notifications and for reminders.
C8_SnoozeDropsNotification ==
    SentOne /\ SnoozeActive(dispatch.settings) =>
        /\ dispatch.attempts = <<>>
        /\ CountKind(dispatch.log, "notification") = 0
        /\ CountKind(dispatch.log, "warning") = 0
        /\ notification_state.last_notification_time
             = dispatch.before.last_notification_time
        /\ ~dispatch.raised

\* C8 witness: a reminder that a channel would have delivered was dropped.
C8_Witness ==
    /\ SentOne /\ SnoozeActive(dispatch.settings)
    /\ dispatch.is_reminder
    /\ dispatch.settings.events[dispatch.event_type]
    /\ dispatch.settings.channels["telegram"] = "ok"
    /\ dispatch.settings.template = "ok"
    /\ Len(dispatch.calls) = 1

CheckedReminders == dispatch.pc = "done" /\ dispatch.fn = "check_and_send_reminders"

\* check_and_send_reminders handed a reminder for event type t to send_notification
ReminderSent(t) ==
    \E i \in DOMAIN dispatch.calls :
        dispatch.calls[i].msg = t /\ dispatch.calls[i].info[1] = "reminder"

\* the time elapsed since the last send of t, in model time units
Elapsed(t) == Val(dispatch.before.last_notification_time[t])
RepeatInterval == dispatch.settings.repeat.interval * UnitsPerMinute
RepeatOn ==
    /\ dispatch.settings.file = "ok"
    /\ dispatch.settings.repeat.enabled
    /\ dispatch.settings.repeat.interval >= 1

\* the reminder for t is due
ReminderDue(t) ==
    /\ RepeatOn
    /\ dispatch.before.active_issues[t]
    /\ ~IsNone(dispatch.before.last_notification_time[t])
    /\ Elapsed(t) >= RepeatInterval

\* the loop over the event types reached t: no reminder before it raised
ReminderReached(t) ==
    \/ ~dispatch.raised
    \/ \E i \in DOMAIN dispatch.calls : dispatch.calls[i].msg = t

C10_ServiceUpImpliesOnline ==
    probe.pc = "done" =>
        /\ probe.result.pihole => probe.result.online
        /\ probe.row.primary_pihole => probe.row.primary_online
        /\ probe.row.secondary_pihole => probe.row.secondary_online

\* C10 witness: a probe whose statistics step succeeded although later steps
\* failed, and one that found the node reachable with its service down.
C10_Witness ==
    /\ probe.pc = "done"
    /\ probe.result.pihole /\ probe.result.online
    /\ probe.net.dhcp = "exception" /\ probe.net.leases = "exception"
    /\ probe.net.logout = "exception"
    /\ probe.node = "secondary" /\ probe.row.secondary_pihole

\* the answer of a step is a failure: an exception or a non-success status
AuthFailed == probe.net.auth # "sid"
StatsFailed == probe.net.stats # "ok"

\* C11: check_pihole_simple never raises: whatever step fails, by an exception
\* or a non-success status, it returns a result with all seven fields, the
\* fields that could not be established at false/0; when the connect fails all
\* fields are false/0 and no request is made after the connect.
C11_ProbeNeverRaises ==
    probe.pc = "done" =>
        /\ ~probe.raised
        /\ DOMAIN probe.result = {"online", "pihole", "queries", "blocked",
                                  "clients", "dhcp_leases", "dhcp_enabled"}
        /\ probe.result.online \in BOOLEAN /\ probe.result.pihole \in BOOLEAN
        /\ probe.result.dhcp_enabled \in BOOLEAN
        /\ probe.result.queries \in Nat /\ probe.result.blocked \in Nat
        /\ probe.result.clients \in Nat /\ probe.result.dhcp_leases \in Nat
        /\ probe.net.connect # "ok" =>
              probe.result = EmptyResult /\ probe.requests = <<"connect">>
        /\ probe.net.connect = "ok"
              /\ (probe.net.session # "ok" \/ AuthFailed \/ StatsFailed) =>
              probe.result = [EmptyResult EXCEPT !.online = TRUE]
        /\ probe.net.dhcp \in {"status", "exception"} => ~probe.result.dhcp_enabled
        /\ probe.net.leases \in {"status", "exception"} =>
              probe.result.dhcp_leases = 0

\* C11 witness: the logout raised after a probe in which the DHCP step raised
\* too, and the result still carries what the statistics step established.
C11_Witness ==
    /\ probe.pc = "done" /\ ~probe.raised
    /\ probe.net.connect = "ok" /\ probe.net.auth = "sid" /\ probe.net.stats = "ok"
    /\ probe.net.dhcp = "exception" /\ probe.net.logout = "exception"
    /\ probe.result.pihole /\ probe.result.queries = 1
    /\ probe.requests = <<"connect", "auth", "stats", "dhcp", "leases", "logout">>

(***************************************************************************)
(* Properties of the resolver (ResolveSpec).                               *)
(***************************************************************************)
ResolveDone == resolve.pc = "done"

\* the attempts of the call that found no link-layer address for the VIP
\* (the lookup printed none, or the attempt raised before it had one)
NoVipEntry(i) ==
    resolve.history[i].exc \/ IsNone(extract_mac(resolve.history[i].vip))

\* C12: check_who_has_vip with max_retries = 3 makes at most 3 attempts and at
\* most 2 backoff sleeps, returns a pair of booleans, and always returns,
\* whatever the lookups answer or raise.
C12_ResolverTerminates ==
    /\ [](/\ Len(resolve.history) <= 3
          /\ resolve.sleeps <= 2
          /\ resolve.sleeps <= Len(resolve.history)
          /\ ResolveDone => /\ Val(resolve.result) \in BOOLEAN \X BOOLEAN
                            /\ Len(resolve.history) >= 1)
    /\ <>ResolveDone

\* C12 witness: a call that used all three attempts and both backoff sleeps,
\* an exception among them.
C12_Witness ==
    /\ ResolveDone /\ Len(resolve.history) = 3 /\ resolve.sleeps = 2
    /\ resolve.history[2].exc /\ ~resolve.history[1].exc

\* the last attempt of the call, and the owner its lookups show: the node
\* whose link-layer address is the VIP's, the primary first
LastAttempt == resolve.history[Len(resolve.history)]
OwnerOf(a) ==
    IF extract_mac(a.primary) = extract_mac(a.vip) THEN <<TRUE, FALSE>>
    ELSE IF extract_mac(a.secondary) = extract_mac(a.vip) THEN <<FALSE, TRUE>>
    ELSE <<FALSE, FALSE>>

\* C13: when the VIP has no link-layer entry on attempts 1..k-1 and has one on
\* attempt k <= 3, check_who_has_vip returns the owner that attempt k's lookups
\* show; it returns (false, false) for a missing VIP entry only on the third
\* attempt, no earlier attempt having found an entry.
C13_ResolverRetriesMissingEntry ==
    ResolveDone =>
        /\ \A i \in 1..(Len(resolve.history) - 1) : NoVipEntry(i)
        /\ ~NoVipEntry(Len(resolve.history)) =>
              Val(resolve.result) = OwnerOf(LastAttempt)
        /\ NoVipEntry(Len(resolve.history)) =>
              /\ Len(resolve.history) = 3
              /\ Val(resolve.result) = <<FALSE, FALSE>>

\* C13 witness: no entry twice, then the VIP's address is the secondary's on
\* the third attempt, and the call returns (false, true).
C13_Witness ==
    /\ ResolveDone /\ Len(resolve.history) = 3
    /\ \A i \in 1..2 : ~resolve.history[i].exc /\ NoVipEntry(i)
    /\ OwnerOf(LastAttempt) = <<FALSE, TRUE>>
    /\ Val(resolve.result) = <<FALSE, TRUE>>

(***************************************************************************)
(* Further properties of the dispatcher (DispatchSpec).                    *)
(***************************************************************************)
\* C14: send_notification never raises to its caller, whatever the settings
\* file holds (a template str.format cannot render included), whatever the
\* channels answer and whichever write of an event fails.
C14_SendNeverRaises ==
    SentOne => ~dispatch.raised

(***************************************************************************)
(* Who writes NotificationState (Spec).                                    *)
(***************************************************************************)
\* a step writes NotificationState: it changes an active_issues flag or stores
\* the current time in last_notification_time (ageing by the clock is no write)
WritesNotificationState ==
    \/ notification_state'.active_issues # notification_state.active_issues
    \/ \E t \in EventTypes :
          /\ notification_state'.last_notification_time[t]
               # notification_state.last_notification_time[t]
          /\ notification_state'.last_notification_time[t] = Some(0)

\* C15: last_notification_time and active_issues are written only by the
\* monitor loop and only by a tick that has fully completed: no request
\* handler changes them, and a tick that is cut short leaves them as they were.
C15_OnlyCompletedTicksWrite ==
    [][WritesNotificationState => tick'.done /\ ~tick.done /\ ~tick'.raised]_vars

(***************************************************************************)
(* Further properties of the monitor loop (Spec).                          *)
(***************************************************************************)
\* the observation of C16: both nodes online with their service up, the
\* primary Master with DHCP enabled, the secondary Backup with DHCP disabled
HealthyObservation ==
    /\ tick.obs.primary_data.online /\ tick.obs.primary_data.pihole
    /\ tick.obs.secondary_data.online /\ tick.obs.secondary_data.pihole
    /\ tick.obs.primary_state = "MASTER" /\ tick.obs.secondary_state = "BACKUP"
    /\ tick.obs.primary_data.dhcp_enabled /\ ~tick.obs.secondary_data.dhcp_enabled

\* C16: a tick that observes both nodes online with their service up, the
\* primary Master, the secondary Backup and DHCP enabled on the primary only
\* logs no event of kind 'warning'.
C16_HealthyTickLogsNoWarning ==
    tick.done /\ HealthyObservation => CountKind(tick.log, "warning") = 0

(***************************************************************************)
(* Further properties of the prober (ProbeSpec).                           *)
(***************************************************************************)
\* the probe got as far as the DHCP leases request
LeasesAsked ==
    /\ probe.pc = "done"
    /\ \E i \in DOMAIN probe.requests : probe.requests[i] = "leases"

\* C17: when the leases answer has status 200 and no 'leases' key, or 'leases'
\* set to null, check_pihole_simple sets dhcp_leases to 0 and does not raise;
\* when 'leases' is a list of n entries it sets dhcp_leases to n.
C17_LeaseCount ==
    LeasesAsked =>
        /\ probe.net.leases \in {"missing", "null"} =>
              probe.result.dhcp_leases = 0 /\ ~probe.raised
        /\ probe.net.leases = "nested" =>
              probe.result.dhcp_leases = probe.net.nleases

\* C17 witness: the 'leases' key was missing and the count is 0, the rest of
\* the result being what the earlier steps established.
C17_Witness ==
    /\ LeasesAsked /\ probe.net.leases = "missing"
    /\ probe.result.dhcp_leases = 0 /\ ~probe.raised
    /\ probe.result.pihole /\ probe.result.dhcp_enabled

(***************************************************************************)
(* C18: the dispatcher reads the settings file on every call.  Once        *)
(* set_snooze has answered with success, every call of send_notification   *)
(* made while time is left of that snooze returns at the snooze check and  *)
(* contacts no channel; once cancel_snooze has answered with success, or   *)
(* the time of the snooze has run out, a call of send_notification does    *)
(* not return at the snooze check.  (No other writer of the snooze entry   *)
(* acts in between, and an endpoint that answered with an error settles    *)
(* nothing.)                                                               *)
(***************************************************************************)
SnoozeGranted == snoozer.status = "set_snooze" /\ snoozer.armed > 0
SnoozeOver ==
    \/ snoozer.status = "cancel_snooze"
    \/ snoozer.status = "set_snooze" /\ snoozer.armed = 0

C18_SnoozeFollowsEndpoints ==
    snoozer.pc = "serving" /\ snoozer.last = "send" =>
       /\ SnoozeGranted => snoozer.gate /\ snoozer.attempts = <<>>
       /\ SnoozeOver => ~snoozer.gate

\* a dispatch dropped in the middle of a snooze that set_snooze granted
C18_Witness ==
    /\ snoozer.pc = "serving"
    /\ snoozer.last = "send"
    /\ SnoozeGranted
    /\ snoozer.armed < minutes(MaxSnoozeMinutes)
    /\ snoozer.gate

(***************************************************************************)
(* C19: of the requests of one client that a limiter accepted, at most     *)
(* RATE_LIMIT_REQUESTS (3), for command_rate_limit_check at most           *)
(* COMMAND_RATE_LIMIT_REQUESTS (5), lie less than one window (60 s) back;  *)
(* a request answered with 429 adds no timestamp and is only answered so   *)
(* when that many accepted requests lie in the window; and a request       *)
(* leaves every other client's list as it found it.                        *)
(***************************************************************************)
LastRequest == Val(limiter.last)

C19_RateLimited ==
    limiter.pc # "idle" =>
       /\ \A c \in Clients : Len(limiter.accepted[c]) <= limiter.requests
       /\ ~IsNone(limiter.last) =>
            /\ \A c \in Clients \ {LastRequest.client_ip} :
                  limiter.store[c] = LastRequest.store[c]
            /\ LastRequest.status = 429 =>
                  /\ Len(limiter.accepted[LastRequest.client_ip]) = limiter.requests
                  /\ \A i \in DOMAIN limiter.store[LastRequest.client_ip] :
                        limiter.store[LastRequest.client_ip][i] # 0
                        \/ \E j \in DOMAIN LastRequest.store[LastRequest.client_ip] :
                              LastRequest.store[LastRequest.client_ip][j] = 0
                  /\ Len(limiter.store[LastRequest.client_ip])
                        <= Len(LastRequest.store[LastRequest.client_ip])
            /\ LastRequest.status = 200 =>
                  Len(limiter.accepted[LastRequest.client_ip]) >= 1

\* a client refused by the command limiter with five requests in the window,
\* the other client's list untouched and not empty
C19_Witness ==
    /\ limiter.pc = "command_rate_limit_check"
    /\ ~IsNone(limiter.last)
    /\ LastRequest.status = 429
    /\ Len(limiter.accepted[LastRequest.client_ip]) = COMMAND_RATE_LIMIT_REQUESTS
    /\ \E c \in Clients \ {LastRequest.client_ip} :
          /\ limiter.store[c] # <<>>
          /\ Len(limiter.store[c]) < COMMAND_RATE_LIMIT_REQUESTS

(***************************************************************************)
(* C20: for any stored settings S, merge_settings(S,                       *)
(* mask_sensitive_data(S)) has every credential field (telegram bot_token  *)
(* and chat_id, discord webhook_url, pushover user_key and app_token,      *)
(* webhook url) equal to its value in S: reading the settings through the  *)
(* mask gives an answer, and saving that answer leaves every stored secret *)
(* as it was.                                                              *)
(***************************************************************************)
SecretsKept ==
    \A i \in DOMAIN SensitiveFields :
       get2(roundtrip.file, SensitiveFields[i].service, SensitiveFields[i].key)
         = get2(roundtrip.was, SensitiveFields[i].service, SensitiveFields[i].key)

C20_MaskedRoundTripKeepsSecrets ==
    /\ roundtrip.pc \in {"read", "failed", "saved"} => roundtrip.status = 200
    /\ roundtrip.pc = "saved" => SecretsKept

(***************************************************************************)
(* C21: validate_interface_name(s) is true exactly when s has 1 to 15      *)
(* characters, each a letter, a digit, '.', '_' or '-'; a name with a      *)
(* shell metacharacter, a space, a newline or a carriage return anywhere,  *)
(* and a name of 16 characters, is rejected.                               *)
(***************************************************************************)
WellFormedName(s) ==
    /\ 1 <= Len(s) /\ Len(s) <= 15
    /\ \A i \in DOMAIN s : s[i] \in NameChars

C21_InterfaceNameValidated ==
    validation.pc = "interface_done" =>
       (validation.result <=> WellFormedName(validation.name))

(***************************************************************************)
(* C22: validate_port(p) is true exactly when p is an integer n, or the    *)
(* decimal string of an integer n, with 1 <= n <= 65535; it is false for   *)
(* 0, negative numbers, 65536 and more, text that is no number, the empty  *)
(* string, None, and floats that are no integers such as 3.14.             *)
(***************************************************************************)
IntegerMeant(port) ==
    IF port.t = "int" THEN Some(port.n)
    ELSE IF port.t = "float" /\ port.frac = 0 THEN Some(port.n)
    ELSE IF port.t = "str" THEN int_of_str(port.s)
    ELSE None

C22_PortValidated ==
    validation.pc = "port_done" =>
       (validation.result <=>
          /\ ~IsNone(IntegerMeant(validation.port))
          /\ 1 <= Val(IntegerMeant(validation.port))
          /\ Val(IntegerMeant(validation.port)) <= 65535)

(***************************************************************************)
(* C23: a tick that reports a failover logs no 'VIP switched' warning; the *)
(* warning is logged only on a tick where the VIP holder flags differ from *)
(* the stored ones and no failover is reported.                            *)
(***************************************************************************)
VipFlagsDiffer ==
    /\ ~IsNone(tick.before.previous.primary_has_vip)
    /\ ~IsNone(tick.before.previous.secondary_has_vip)
    /\ \/ Val(tick.before.previous.primary_has_vip) # tick.obs.primary_has_vip
       \/ Val(tick.before.previous.secondary_has_vip) # tick.obs.secondary_has_vip

C23_NoVipWarningWithFailover ==
    tick.done /\ CountMsg(tick.log, "vip_switched") > 0 =>
       VipFlagsDiffer /\ FailoverCount = 0

(***************************************************************************)
(* C24: once authentication has given a session id, a statistics fetch     *)
(* that fails (a status other than 200, or an exception) leaves pihole     *)
(* true and the three counters 0.                                          *)
(***************************************************************************)
StatsFailedAfterAuth ==
    /\ probe.net.connect = "ok"
    /\ probe.net.session = "ok"
    /\ probe.net.auth = "sid"
    /\ probe.net.stats # "ok"

C24_AuthDecidesServiceUp ==
    probe.pc = "done" /\ StatsFailedAfterAuth =>
       /\ probe.result.pihole
       /\ probe.result.queries = 0
       /\ probe.result.blocked = 0
       /\ probe.result.clients = 0

(***************************************************************************)
(* C25: an attempt that finds a link-layer address for the VIP which       *)
(* equals neither node's (or the equal node's address is not known) is the *)
(* last one: check_who_has_vip returns (false, false) from it, without a   *)
(* sleep after it and without another attempt.                             *)
(***************************************************************************)
Mismatch(a) ==
    /\ ~a.exc
    /\ ~IsNone(extract_mac(a.vip))
    /\ extract_mac(a.vip) # extract_mac(a.primary)
    /\ extract_mac(a.vip) # extract_mac(a.secondary)

C25_MismatchReturnsAtOnce ==
    resolve.pc # "idle" =>
       \A i \in DOMAIN resolve.history :
          Mismatch(resolve.history[i]) =>
             /\ resolve.pc = "done"
             /\ i = Len(resolve.history)
             /\ resolve.result = Some(<<FALSE, FALSE>>)
             /\ resolve.sleeps = i - 1

\* a mismatch on the second attempt, after a first one without VIP entry
C25_Witness ==
    /\ resolve.pc = "done"
    /\ Len(resolve.history) = 2
    /\ Mismatch(resolve.history[2])
    /\ ~IsNone(extract_mac(resolve.history[2].primary))
    /\ resolve.sleeps = 1

(***************************************************************************)
(* C26: the pair check_who_has_vip returns follows from the link-layer     *)
(* addresses of its last attempt, in this order: the VIP's is there and    *)
(* equals the primary's: (true, false); else the VIP's is there and equals *)
(* the secondary's: (false, true); else (false, false).  It is never       *)
(* (true, true): with both nodes' addresses equal to the VIP's the answer  *)
(* is (true, false).                                                       *)
(***************************************************************************)
Present(mac) == ~IsNone(mac)

DecidedOwner(a) ==
    IF a.exc THEN <<FALSE, FALSE>>
    ELSE IF Present(extract_mac(a.vip)) /\ Present(extract_mac(a.primary))
            /\ Val(extract_mac(a.vip)) = Val(extract_mac(a.primary))
    THEN <<TRUE, FALSE>>
    ELSE IF Present(extract_mac(a.vip)) /\ Present(extract_mac(a.secondary))
            /\ Val(extract_mac(a.vip)) = Val(extract_mac(a.secondary))
    THEN <<FALSE, TRUE>>
    ELSE <<FALSE, FALSE>>

C26_OwnerDecidedPrimaryFirst ==
    ResolveDone =>
       /\ Val(resolve.result) = DecidedOwner(LastAttempt)
       /\ Val(resolve.result) # <<TRUE, TRUE>>

\* both nodes show the VIP's address, and the primary is named
C26_Witness ==
    /\ ResolveDone
    /\ ~LastAttempt.exc
    /\ Present(extract_mac(LastAttempt.vip))
    /\ extract_mac(LastAttempt.primary) = extract_mac(LastAttempt.vip)
    /\ extract_mac(LastAttempt.secondary) = extract_mac(LastAttempt.vip)
    /\ Val(resolve.result) = <<TRUE, FALSE>>

(***************************************************************************)
(* C27: a leases answer that is a flat list of n leases gives              *)
(* dhcp_leases = n, as the same list under the key 'leases' does.          *)
(***************************************************************************)
C27_FlatLeaseListCounted ==
    probe.pc = "done" /\ LeasesAsked /\ probe.net.leases = "flat" =>
       probe.result.dhcp_leases = probe.net.nleases

(***************************************************************************)
(* C28: when the template of the event type names a variable that the      *)
(* template variables lack, send_notification contacts no channel, logs no *)
(* 'notification' event, leaves last_notification_time as it was and logs  *)
(* one 'warning' event, the template error (the event is missing only when *)
(* the database refuses the write, and nothing else is logged then).       *)
(***************************************************************************)
PassedGates(settings, event_type) ==
    /\ settings.file = "ok"
    /\ ~is_snoozed(settings)
    /\ settings.events[event_type]

C28_MissingVariableDrops ==
    /\ SentOne
    /\ PassedGates(dispatch.settings, dispatch.event_type)
    /\ dispatch.settings.template = "missing_var"
    => /\ dispatch.attempts = <<>>
       /\ CountKind(dispatch.log, "notification") = 0
       /\ notification_state.last_notification_time
            = dispatch.before.last_notification_time
       /\ IF dispatch.raised THEN dispatch.log = <<>>
          ELSE /\ Len(dispatch.log) = 1
               /\ dispatch.log[1].kind = "warning"
               /\ dispatch.log[1].msg = "template_error"

\* a channel stood ready, and the template error is all that was logged
C28_Witness ==
    /\ SentOne
    /\ PassedGates(dispatch.settings, dispatch.event_type)
    /\ dispatch.settings.template = "missing_var"
    /\ dispatch.settings.channels["telegram"] = "ok"
    /\ ~dispatch.raised
    /\ CountKind(dispatch.log, "warning") = 1

(***************************************************************************)
(* C29: after a call of send_notification that passed the gates and        *)
(* rendered its message: last_notification_time of the event type is set   *)
(* and exactly one 'notification' event is logged if and only if at least  *)
(* one channel delivered; exactly one 'warning' event naming the failed    *)
(* channels is logged if and only if at least one channel failed; and      *)
(* every enabled channel is tried, whatever the others did.                *)
(***************************************************************************)
Rendered ==
    /\ SentOne
    /\ PassedGates(dispatch.settings, dispatch.event_type)
    /\ dispatch.settings.template = "ok"

Delivered == {c \in Channels : dispatch.settings.channels[c] = "ok"}
Failed == {c \in Channels : dispatch.settings.channels[c] \in {"http_error", "exception"}}
Tried == {dispatch.attempts[i] : i \in DOMAIN dispatch.attempts}

C29_SendOutcomeRecorded ==
    Rendered =>
       /\ Tried = Delivered \cup Failed
       /\ IF Delivered # {}
          THEN /\ notification_state.last_notification_time[dispatch.event_type]
                    = Some(0)
               /\ CountKind(dispatch.log, "notification") = 1
          ELSE /\ notification_state.last_notification_time
                    = dispatch.before.last_notification_time
               /\ CountKind(dispatch.log, "notification") = 0
       /\ CountMsg(dispatch.log, "notification_failed")
            = (IF Failed # {} THEN 1 ELSE 0)

(***************************************************************************)
(* C30: after every completed tick, active_issues['failover'] is true only *)
(* if the active role is not the primary; a tick that ends with the        *)
(* primary active leaves the flag false and sends no failover reminder.    *)
(***************************************************************************)
FailoverReminderSent ==
    \E i \in DOMAIN tick.calls :
        tick.calls[i].msg = "failover" /\ tick.calls[i].info[1] = "reminder"

C30_FailoverIssueClearedOnReturn ==
    tick.done /\ ~tick.raised /\ tick.obs.current_master = "primary" =>
       /\ ~notification_state.active_issues["failover"]
       /\ ~FailoverReminderSent

\* ---------------------------------------------------------------------
\* the DHCP-misconfiguration events one tick logged for one node
DhcpEvents(node, msg) ==
    Cardinality({i \in DOMAIN tick.log :
                    /\ tick.log[i].kind = "warning"
                    /\ tick.log[i].msg = msg
                    /\ tick.log[i].info = <<node>>})

\* the DHCP check of one node came out as the roles and the DHCP flags say
DhcpChecked(node, state, dhcp) ==
    /\ DhcpEvents(node, "dhcp_master_disabled")
          = (IF state = "MASTER" /\ ~dhcp THEN 1 ELSE 0)
    /\ DhcpEvents(node, "dhcp_backup_enabled")
          = (IF state = "BACKUP" /\ dhcp THEN 1 ELSE 0)

\* C31: a tick that runs to completion, the first one included, logs for
\* each node one DHCP warning when the node is MASTER with DHCP disabled or
\* BACKUP with DHCP enabled and none otherwise, whatever the previous tick
\* observed.
C31_DhcpCheckedEveryTick ==
    tick.done /\ ~tick.raised =>
       /\ DhcpChecked("Primary", tick.obs.primary_state,
                      tick.obs.primary_data.dhcp_enabled)
       /\ DhcpChecked("Secondary", tick.obs.secondary_state,
                      tick.obs.secondary_data.dhcp_enabled)

\* a completed tick after the first, nothing changed since the tick before,
\* and the BACKUP node is warned about for its enabled DHCP
C31_Witness ==
    /\ tick.done /\ ~tick.raised /\ ~FirstTick
    /\ ~RoleDiffers
    /\ tick.obs.secondary_state = "BACKUP"
    /\ tick.obs.secondary_data.dhcp_enabled
    /\ DhcpEvents("Secondary", "dhcp_backup_enabled") = 1
    /\ DhcpEvents("Primary", "dhcp_master_disabled") = 0

\* ---------------------------------------------------------------------
\* the messages of the DHCP check that speak of one node only
PerNodeDhcpMsgs == {"dhcp_master_disabled", "dhcp_backup_enabled"}

\* the events a completed tick logs after the previous observation is stored:
\* all that the DHCP check of the tick wrote
DhcpCheckLog ==
    {i \in DOMAIN tick.log :
        /\ tick.log[i].kind # "snapshot"
        /\ \A j \in DOMAIN tick.log : tick.log[j].kind = "snapshot" => j < i
        /\ tick.log[i].msg \notin {"became_master", "failover_reason",
                                   "notification_sent", "notification_failed",
                                   "template_error", "settings_load_failed"}}

\* C32: in a completed tick in which both nodes report DHCP enabled, the
\* DHCP check logs an event for the both-enabled condition, one that is
\* none of the per-node warnings, with or without a failover in the tick.
C32_BothEnabledIsLogged ==
    /\ tick.done /\ ~tick.raised
    /\ tick.obs.primary_data.dhcp_enabled
    /\ tick.obs.secondary_data.dhcp_enabled
    => \E i \in DhcpCheckLog : tick.log[i].msg \notin PerNodeDhcpMsgs

\* ---------------------------------------------------------------------
\* the events with one message a tick logged about one node
NodeEvents(kind, msg, node) ==
    Cardinality({i \in DOMAIN tick.log :
                    /\ tick.log[i].kind = kind
                    /\ tick.log[i].msg = msg
                    /\ tick.log[i].info = <<node>>})

\* the online events of one node are those of the change from the tick before
OnlineReported(node, was_online, is_online) ==
    /\ NodeEvents("warning", "went_offline", node)
          = (IF was_online /\ ~is_online THEN 1 ELSE 0)
    /\ NodeEvents("success", "back_online", node)
          = (IF ~was_online /\ is_online THEN 1 ELSE 0)

\* C33: in every completed tick after the first, each node has one
\* 'warning' went-OFFLINE event exactly when it was online in the tick before
\* and is offline now, one 'success' back-ONLINE event exactly when it was
\* offline and is online now, and no online event when the flag is unchanged.
C33_OnlineChangeReported ==
    tick.done /\ ~tick.raised /\ ~IsNone(tick.last) =>
       /\ OnlineReported("Primary", Val(tick.last).primary_online,
                         tick.obs.primary_data.online)
       /\ OnlineReported("Secondary", Val(tick.last).secondary_online,
                         tick.obs.secondary_data.online)

\* ---------------------------------------------------------------------
\* the service of a node went down under the eyes of the monitor: up in the
\* tick before, down now, the node reachable now
ServiceWentDown(was_pihole, data) == was_pihole /\ ~data.pihole /\ data.online

\* C34: a service-DOWN warning for a node is logged only in a tick that
\* finds the service down and the node online after the tick before found
\* the service up; a node that went offline gets no service-DOWN warning.
C34_ServiceDownOnlyWhenWentDown ==
    tick.done /\ ~IsNone(tick.last) =>
       /\ down_logged("Primary") =>
             ServiceWentDown(Val(tick.last).primary_pihole, tick.obs.primary_data)
       /\ down_logged("Secondary") =>
             ServiceWentDown(Val(tick.last).secondary_pihole, tick.obs.secondary_data)

\* ---------------------------------------------------------------------
\* the places of the snapshot rows among the rows one tick wrote
SnapshotAt == {i \in DOMAIN tick.log : tick.log[i].kind = "snapshot"}

\* C35: in every tick the snapshot row is written before any event row of
\* the tick, and a tick that completes writes exactly one snapshot row (every
\* write of the loop is an INSERT, so no earlier row is changed).
C35_SnapshotBeforeEvents ==
    tick.done =>
       /\ \A i \in DOMAIN tick.log \ SnapshotAt : \E j \in SnapshotAt : j < i
       /\ ~tick.raised => Cardinality(SnapshotAt) = 1

\* ---------------------------------------------------------------------
\* the tick logged an event with this message that names the node
Names(msg, node) ==
    \E i \in DOMAIN tick.log : tick.log[i].msg = msg /\ tick.log[i].info = <<node>>

\* the resolver of the tick found the VIP on neither node
NoOwner == ~tick.obs.primary_has_vip /\ ~tick.obs.secondary_has_vip

\* C36: a 'failover' event names a node as the new MASTER only in a tick
\* whose resolver reports the VIP on that node; in a tick whose resolver
\* reports it on neither node, no failover event, no snapshot row and no
\* start-up message declares the secondary MASTER.
C36_MasterOnlyWithVip ==
    tick.done =>
       /\ Names("became_master", "Primary") => tick.obs.primary_has_vip
       /\ Names("became_master", "Secondary") => tick.obs.secondary_has_vip
       /\ NoOwner =>
             /\ ~Names("monitor_started", "Secondary")
             /\ \A i \in DOMAIN tick.rows : tick.rows[i].secondary_state # "MASTER"

\* ---------------------------------------------------------------------
\* the calls of send_notification("failover", ...) the loop made in the tick
\* on detecting the failover (reminders apart)
FailoverCalls ==
    {i \in DOMAIN tick.calls :
        /\ tick.calls[i].msg = "failover"
        /\ tick.calls[i].info[1] = reminder_tag(FALSE)}

\* the configured name of a node
ConfiguredName(node) == IF node = "Primary" THEN "primary_name" ELSE "secondary_name"

\* the node that is not this one
OtherNode(node) == IF node = "Primary" THEN "Secondary" ELSE "Primary"

\* C37: in the failover notification of a tick, 'master' is the configured
\* name of the node that became master, the node that 'node' and the logged
\* failover event name, and 'backup' is the name of the other node, for a
\* change to the secondary and for a change to the primary.
C37_MasterAndBackupNamed ==
    tick.done =>
       \A i \in FailoverCalls :
          \E node \in {"Primary", "Secondary"} :
             /\ Names("became_master", node)
             /\ tick.calls[i].info[2] = node
             /\ tick.calls[i].info[3] = ConfiguredName(node)
             /\ tick.calls[i].info[4] = ConfiguredName(OtherNode(node))

\* ---------------------------------------------------------------------
\* The loop under fair scheduling with the notification settings readable:
\* snooze on or off and the channel delivering or failing, as each tick
\* finds the settings file.
ReminderSettings ==
    { BaseSettings,
      [BaseSettings EXCEPT !.snooze = [enabled |-> TRUE, until |-> Until(1)]],
      [BaseSettings EXCEPT !.channels = [c \in Channels |->
            IF c = "telegram" THEN "http_error" ELSE "disabled"]] }

\* both nodes up with their services: the role changes with the VIP alone
ReminderProbeResults == {r \in SteadyProbeResults : r.online /\ r.pihole}

ReminderTick == TickOver(ReminderProbeResults, SteadyVipResults, ReminderSettings)

ReminderNext == ReminderTick \/ Sleep

ReminderSpec ==
    Init /\ [][ReminderNext]_vars /\ WF_vars(ReminderTick) /\ WF_vars(Sleep)

\* a failover has been detected and the role has not been seen to return to
\* the primary: the failover issue is flagged active
FailoverActive == notification_state.active_issues["failover"]

\* the role is with the secondary
SecondaryStays == tick.done => tick.obs.current_master = "secondary"

\* no write of the tick failed
Completed == tick.done => ~tick.raised

\* the tick finds reminders enabled at a positive interval, both event types
\* enabled, one channel delivering and no snooze
Favourable ==
    tick.done => /\ tick.settings.file = "ok"
                 /\ tick.settings.repeat.enabled
                 /\ tick.settings.repeat.interval > 0
                 /\ tick.settings.events["failover"]
                 /\ tick.settings.events["fault"]
                 /\ \E c \in Channels : tick.settings.channels[c] = "ok"
                 /\ ~is_snoozed(tick.settings)

\* C38: when a failover to the secondary has been detected and the role
\* stays with the secondary, and from some tick on every tick finds
\* reminders enabled, the failover event enabled, a delivering channel and no
\* snooze, a failover reminder is eventually sent, whatever became of the
\* initial notification (no write failing in any tick).
C38_FailoverReminderEventuallySent ==
    []Completed /\ <>[](FailoverActive /\ SecondaryStays /\ Favourable)
       => <>FailoverReminderSent

\* ---------------------------------------------------------------------
\* The loop alone under fair scheduling, no request reaching the API, the
\* notification settings as shipped: nodes come and go with their services.
FaultTick == TickOver(SteadyProbeResults, SteadyVipResults, {BaseSettings})

FaultNext == FaultTick \/ Sleep

FaultSpec == Init /\ [][FaultNext]_vars /\ WF_vars(FaultTick) /\ WF_vars(Sleep)

\* both nodes offline, or the services of both down
FaultObserved ==
    \/ ~tick.obs.primary_data.online /\ ~tick.obs.secondary_data.online
    \/ ~tick.obs.primary_data.pihole /\ ~tick.obs.secondary_data.pihole

\* the fault is there in every tick
FaultPersists == tick.done => FaultObserved

\* the loop called send_notification for a 'fault', first notice or reminder
FaultNotified == \E i \in DOMAIN tick.calls : tick.calls[i].msg = "fault"

\* C39: a completed tick that finds both nodes offline or both services down
\* leaves active_issues['fault'] true, and when from some tick on the fault
\* is there in every tick, with notifications and reminders enabled and no
\* snooze, the loop eventually sends a 'fault' notification of its own (no
\* write failing in any tick).
C39_FaultEventuallyNotified ==
    /\ [](tick.done /\ ~tick.raised /\ FaultObserved
            => notification_state.active_issues["fault"])
    /\ ([]Completed /\ <>[](FaultPersists /\ Favourable) => <>FaultNotified)

\* ---------------------------------------------------------------------
\* the tick logged the 'success' event that the service of the node is back UP
up_logged(node) ==
    \E i \in DOMAIN tick.log :
        /\ tick.log[i].kind = "success"
        /\ tick.log[i].msg = "service_up"
        /\ tick.log[i].info = <<node>>

\* C40: every 'success' event that the service of a node is back UP comes
\* after a 'warning' event that the service of that node is DOWN, logged
\* since the last tick that saw the service up: the two alternate.
C40_ServiceEventsAlternate ==
    tick.done =>
       /\ up_logged("Primary") =>
             ~IsNone(tick.last) /\ Val(tick.last).primary_warned
       /\ up_logged("Secondary") =>
             ~IsNone(tick.last) /\ Val(tick.last).secondary_warned

====
